---- MODULE Spec2Model ----
(***************************************************************************)
(* Model of the scoring engine of the ATS resume analyzer                  *)
(* (src/ai_scorer.py, class AIScorer).                                     *)
(*                                                                         *)
(* Conventions                                                             *)
(*  - A Python str is a sequence of one-character strings, so that         *)
(*    lower(), strip() and the `in` substring test are computed.           *)
(*  - A Python float is an exact rational [n, d] with d > 0; a value       *)
(*    rounded by round(x, 2) is an integer number of hundredths.           *)
(*  - A cosine similarity is an integer number of hundredths in -100..100; *)
(*    the embedding model is an external library, so the similarity of a   *)
(*    text to the job description is an input carried next to the text.    *)
(*  - A weight is an integer number of hundredths (0.40 is 40).            *)
(*  - An Optional value is a sequence of length at most one (None = <<>>). *)
(*  - history is the set of the (arg, ret) pairs of the calls of            *)
(*    calculate_overall_score made so far on this scorer.                  *)
(***************************************************************************)
EXTENDS Integers, Sequences, FiniteSets, TLC

VARIABLES pc, op, arg, ret, simCalls, self_weights, history

\* the scorer's concurrent callers; the legacy uploader's progress record, its
\* uploads directory and its in-flight /upload requests; the database tables;
\* whether the SMTP user name and password are both set
VARIABLES threads, processing_state, uploads, requests, db, smtp_configured

services == <<threads, processing_state, uploads, requests, db, smtp_configured>>

vars == <<pc, op, arg, ret, simCalls, self_weights, history, services>>

(***************************************************************************)
(* Bounds of the explored inputs.                                          *)
(***************************************************************************)
MaxResumeSkills == 2
MaxRequiredSkills == 2
MaxYears == 7
MaxEducation == 2
MaxProjects == 2

(***************************************************************************)
(* Python str operations.                                                  *)
(***************************************************************************)
UpperCase == <<"A","B","C","D","E","F","G","H","I","J","K","L","M",
               "N","O","P","Q","R","S","T","U","V","W","X","Y","Z">>

LowerCase == <<"a","b","c","d","e","f","g","h","i","j","k","l","m",
               "n","o","p","q","r","s","t","u","v","w","x","y","z">>

LowerOf == [i \in 1..26 |-> LowerCase[i]]

UpperIndex == [c \in {UpperCase[i] : i \in 1..26} |->
                  CHOOSE i \in 1..26 : UpperCase[i] = c]

lower_char(c) == IF c \in DOMAIN UpperIndex THEN LowerOf[UpperIndex[c]] ELSE c

lower(s) == [i \in 1..Len(s) |-> lower_char(s[i])]

IsSpace(c) == c \in {" ", "\t", "\n"}

SetMin(S) == CHOOSE x \in S : \A y \in S : x <= y

SetMax(S) == CHOOSE x \in S : \A y \in S : x >= y

strip(s) ==
    LET keep == {i \in 1..Len(s) : ~IsSpace(s[i])}
    IN  IF keep = {} THEN << >> ELSE SubSeq(s, SetMin(keep), SetMax(keep))

\* Python `a in b` on two str values
In(a, b) == \E i \in 0..(Len(b) - Len(a)) : SubSeq(b, i + 1, i + Len(a)) = a

\* Python `x in lst` on a list
InList(x, lst) == \E i \in 1..Len(lst) : lst[i] = x

\* dict.get(key, default)
Get(d, key, default) == IF key \in DOMAIN d THEN d[key] ELSE default

(***************************************************************************)
(* Floats as exact rationals.                                              *)
(***************************************************************************)
Rat(n, d) == [n |-> n, d |-> d]

RECURSIVE GCD(_, _)
GCD(a, b) == IF b = 0 THEN a ELSE GCD(b, a % b)

Abs(x) == IF x < 0 THEN 0 - x ELSE x

\* the same value in lowest terms
Reduce(x) ==
    LET g == GCD(Abs(x.n), x.d) IN Rat(x.n \div g, x.d \div g)

RatLeq(a, b) == a.n * b.d <= b.n * a.d

RatEq(a, b) == a.n * b.d = b.n * a.d

RatMin(a, b) == IF RatLeq(a, b) THEN a ELSE b

RatMax(a, b) == IF RatLeq(a, b) THEN b ELSE a

\* a / b for integers a, b with b # 0
RatDiv(a, b) == IF b > 0 THEN Rat(a, b) ELSE Rat(0 - a, 0 - b)

\* the integer nearest to n / d (d > 0), ties to the even one
RoundHalfEven(n, d) ==
    LET q == n \div d
        r == n % d
    IN  IF 2 * r < d THEN q
        ELSE IF 2 * r > d THEN q + 1
        ELSE IF q % 2 = 0 THEN q ELSE q + 1

\* round(x, 2), in hundredths
Round2(x) == RoundHalfEven(x.n * 100, x.d)

(***************************************************************************)
(* AIScorer.__init__ : the default weights.                                *)
(***************************************************************************)
Components == {"semantic", "skills", "experience", "education", "projects"}

DefaultWeights ==
    [semantic |-> 40, skills |-> 30, experience |-> 15,
     education |-> 10, projects |-> 5]

(***************************************************************************)
(* AIScorer.calculate_skills_score                                         *)
(***************************************************************************)
\* as FoundFrom, looking at one resume skill only (the loop left too early)
FoundFrom_first_only(req_skill, resume_skills_normalized, i) ==
    /\ i <= Len(resume_skills_normalized)
    /\ \/ In(req_skill, resume_skills_normalized[i])
       \/ In(resume_skills_normalized[i], req_skill)

\* as FoundFrom, without the test `res_skill in req_skill`
RECURSIVE FoundFrom_one_direction(_, _, _)
FoundFrom_one_direction(req_skill, resume_skills_normalized, i) ==
    IF i > Len(resume_skills_normalized) THEN FALSE
    ELSE IF In(req_skill, resume_skills_normalized[i])
         THEN TRUE
         ELSE FoundFrom_one_direction(req_skill, resume_skills_normalized, i + 1)

\* the inner loop: is some resume skill, from position i on, a match
RECURSIVE FoundFrom(_, _, _)
FoundFrom(req_skill, resume_skills_normalized, i) ==
    IF i > Len(resume_skills_normalized) THEN FALSE
    ELSE IF In(req_skill, resume_skills_normalized[i])
            \/ In(resume_skills_normalized[i], req_skill)
         THEN TRUE
         ELSE FoundFrom(req_skill, resume_skills_normalized, i + 1)

\* as MatchLoop, an unmatched required skill recorded nowhere
RECURSIVE MatchLoop_missing_dropped(_, _, _, _, _)
MatchLoop_missing_dropped(required_skills_normalized, resume_skills_normalized, i, matched, missing) ==
    IF i > Len(required_skills_normalized) THEN <<matched, missing>>
    ELSE LET req_skill == required_skills_normalized[i]
         IN  MatchLoop_missing_dropped(
                 required_skills_normalized, resume_skills_normalized, i + 1,
                 IF FoundFrom_one_direction(req_skill, resume_skills_normalized, 1)
                    \/ \E j \in 1..Len(resume_skills_normalized) :
                          In(resume_skills_normalized[j], req_skill)
                 THEN Append(matched, req_skill) ELSE matched,
                 missing)

\* the outer loop: the pair (matched, missing) after required skills i..n
RECURSIVE MatchLoop(_, _, _, _, _)
MatchLoop(required_skills_normalized, resume_skills_normalized, i, matched, missing) ==
    IF i > Len(required_skills_normalized) THEN <<matched, missing>>
    ELSE LET req_skill == required_skills_normalized[i]
         IN  IF FoundFrom(req_skill, resume_skills_normalized, 1)
             THEN MatchLoop(required_skills_normalized, resume_skills_normalized,
                            i + 1, Append(matched, req_skill), missing)
             ELSE MatchLoop(required_skills_normalized, resume_skills_normalized,
                            i + 1, matched, Append(missing, req_skill))

Normalize(skills) == [i \in 1..Len(skills) |-> strip(lower(skills[i]))]

Head5(lst) == SubSeq(lst, 1, IF Len(lst) < 5 THEN Len(lst) ELSE 5)

calculate_skills_score(resume_skills, required_skills) ==
    IF Len(required_skills) = 0
    THEN [score |-> Rat(50, 1),
          explanation |-> [matched |-> << >>, missing |-> << >>,
                           extra |-> resume_skills]]
    ELSE LET resume_skills_normalized == Normalize(resume_skills)
             required_skills_normalized == Normalize(required_skills)
             mm == MatchLoop(required_skills_normalized,
                             resume_skills_normalized, 1, << >>, << >>)
             matched == mm[1]
             missing == mm[2]
             score == Rat(Len(matched) * 100, Len(required_skills_normalized))
             extra == SelectSeq(resume_skills_normalized,
                                LAMBDA s : ~InList(s, matched))
         IN  [score |-> score,
              explanation |-> [matched |-> matched, missing |-> missing,
                               extra |-> Head5(extra),
                               match_ratio |-> <<Len(matched), "/",
                                                 Len(required_skills_normalized)>>]]

(***************************************************************************)
(* AIScorer.calculate_experience_score                                     *)
(***************************************************************************)
\* as calculate_experience_score, the partial credit computed from the
\* shortfall (required - resume) instead of from the years held
calculate_experience_score_shortfall(resume_years, required_years) ==
    IF required_years = 0
    THEN [score |-> Rat(100, 1),
          explanation |-> [message |-> "No experience requirement"]]
    ELSE LET score == IF resume_years >= required_years
                      THEN Rat(100, 1)
                      ELSE RatMin(Rat(100, 1),
                                  RatDiv((required_years - resume_years) * 100,
                                         required_years))
         IN  [score |-> score,
              explanation |-> [resume_years |-> resume_years,
                               required_years |-> required_years,
                               meets_requirement |-> resume_years >= required_years]]

\* as calculate_experience_score, with the neutral 50.0 of the skills score
\* when nothing is required
calculate_experience_score_neutral(resume_years, required_years) ==
    IF required_years = 0
    THEN [score |-> Rat(50, 1),
          explanation |-> [message |-> "No experience requirement"]]
    ELSE LET score == IF resume_years >= required_years
                      THEN Rat(100, 1)
                      ELSE RatMin(Rat(100, 1),
                                  RatDiv(resume_years * 100, required_years))
         IN  [score |-> score,
              explanation |-> [resume_years |-> resume_years,
                               required_years |-> required_years,
                               meets_requirement |-> resume_years >= required_years]]

calculate_experience_score(resume_years, required_years) ==
    IF required_years = 0
    THEN [score |-> Rat(100, 1),
          explanation |-> [message |-> "No experience requirement"]]
    ELSE LET score == IF resume_years >= required_years
                      THEN Rat(100, 1)
                      ELSE RatMin(Rat(100, 1),
                                  RatDiv(resume_years * 100, required_years))
         IN  [score |-> score,
              explanation |-> [resume_years |-> resume_years,
                               required_years |-> required_years,
                               meets_requirement |-> resume_years >= required_years]]

(***************************************************************************)
(* AIScorer.calculate_education_score                                      *)
(***************************************************************************)
t_bachelor == <<"b","a","c","h","e","l","o","r">>

t_btech == <<"b",".","t","e","c","h">>

t_be == <<"b",".","e">>

t_master == <<"m","a","s","t","e","r">>

t_mtech == <<"m",".","t","e","c","h">>

t_phd == <<"p","h","d">>

t_ph_d == <<"p","h",".","d">>

t_diploma == <<"d","i","p","l","o","m","a">>

k_engineer == <<"e","n","g","i","n","e","e","r">>

k_scientist == <<"s","c","i","e","n","t","i","s","t">>

k_developer == <<"d","e","v","e","l","o","p","e","r">>

k_data == <<"d","a","t","a">>

s_NA == <<"N","/","A">>

\* as role_requirements, with the 'data' entry ahead of 'scientist'
role_requirements_data_first ==
    << [key |-> k_engineer,
        levels |-> <<t_bachelor, t_btech, t_be, t_master, t_mtech>>],
       [key |-> k_data,
        levels |-> <<t_bachelor, t_master, t_phd>>],
       [key |-> k_scientist,
        levels |-> <<t_master, t_mtech, t_phd, t_ph_d>>],
       [key |-> k_developer,
        levels |-> <<t_bachelor, t_btech, t_diploma>>] >>

\* the dict literal, in insertion order (the order `items()` iterates in)
role_requirements ==
    << [key |-> k_engineer,
        levels |-> <<t_bachelor, t_btech, t_be, t_master, t_mtech>>],
       [key |-> k_scientist,
        levels |-> <<t_master, t_mtech, t_phd, t_ph_d>>],
       [key |-> k_developer,
        levels |-> <<t_bachelor, t_btech, t_diploma>>],
       [key |-> k_data,
        levels |-> <<t_bachelor, t_master, t_phd>>] >>

default_levels == <<t_bachelor, t_btech, t_be>>

\* the loop over role_requirements.items() with its break
RECURSIVE LevelsFrom(_, _)
LevelsFrom(job_lower, i) ==
    IF i > Len(role_requirements) THEN << >>
    ELSE IF In(role_requirements[i].key, job_lower)
         THEN role_requirements[i].levels
         ELSE LevelsFrom(job_lower, i + 1)

\* as required_levels_for, without the bachelor-level default
required_levels_for_no_default(job_role) == LevelsFrom(lower(job_role), 1)

required_levels_for(job_role) ==
    LET required_levels == LevelsFrom(lower(job_role), 1)
    IN  IF Len(required_levels) = 0 THEN default_levels ELSE required_levels

edu_text_of(edu) ==
    lower(Get(edu, "degree", << >>)) \o <<" ">> \o lower(Get(edu, "details", << >>))

\* found_levels: one entry per (education entry, level) hit, in loop order
RECURSIVE FoundLevels(_, _, _, _)
FoundLevels(resume_education, required_levels, i, j) ==
    IF i > Len(resume_education) THEN << >>
    ELSE IF j > Len(required_levels)
         THEN FoundLevels(resume_education, required_levels, i + 1, 1)
         ELSE LET rest == FoundLevels(resume_education, required_levels, i, j + 1)
              IN  IF In(required_levels[j], edu_text_of(resume_education[i]))
                  THEN <<required_levels[j]>> \o rest
                  ELSE rest

calculate_education_score(resume_education, job_role) ==
    IF Len(resume_education) = 0
    THEN [score |-> Rat(30, 1),
          explanation |-> [message |-> "No education information found"]]
    ELSE LET required_levels == required_levels_for(job_role)
             found_levels == FoundLevels(resume_education, required_levels, 1, 1)
             score == IF Len(found_levels) > 0 THEN Rat(100, 1) ELSE Rat(60, 1)
         IN  [score |-> score,
              explanation |->
                 [found_education |->
                     [i \in 1..Len(resume_education) |->
                         Get(resume_education[i], "degree", s_NA)],
                  required_levels |-> required_levels,
                  meets_requirement |-> Len(found_levels) > 0]]

(***************************************************************************)
(* AIScorer.calculate_projects_score                                       *)
(* A project carries, next to its dict keys, the field sim: the cosine     *)
(* similarity the embedding model yields for its text against the job      *)
(* description (read only where the code calls cosine_similarity).          *)
(***************************************************************************)
RelevanceThreshold == 30

MinProjectTextLen == 10

project_text_of(project) ==
    Get(project, "title", << >>) \o <<" ">> \o Get(project, "description", << >>)

\* as ProjectLoop, without the length filter
RECURSIVE ProjectLoop_no_filter(_, _, _, _)
ProjectLoop_no_filter(resume_projects, i, project_scores, relevant_projects) ==
    IF i > Len(resume_projects) THEN <<project_scores, relevant_projects>>
    ELSE LET project == resume_projects[i]
             similarity_float == project.sim
         IN  ProjectLoop_no_filter(resume_projects, i + 1,
                 Append(project_scores, similarity_float),
                 IF similarity_float > RelevanceThreshold
                 THEN Append(relevant_projects,
                         [title |-> Get(project, "title", s_NA),
                          relevance |-> similarity_float * 100])
                 ELSE relevant_projects)

\* the loop: <<project_scores, relevant_projects>> after projects i..n
RECURSIVE ProjectLoop(_, _, _, _)
ProjectLoop(resume_projects, i, project_scores, relevant_projects) ==
    IF i > Len(resume_projects) THEN <<project_scores, relevant_projects>>
    ELSE LET project == resume_projects[i]
         IN  IF Len(strip(project_text_of(project))) < MinProjectTextLen
             THEN ProjectLoop(resume_projects, i + 1, project_scores,
                              relevant_projects)
             ELSE LET similarity_float == project.sim
                  IN  ProjectLoop(resume_projects, i + 1,
                          Append(project_scores, similarity_float),
                          IF similarity_float > RelevanceThreshold
                          THEN Append(relevant_projects,
                                  [title |-> Get(project, "title", s_NA),
                                   relevance |-> similarity_float * 100])
                          ELSE relevant_projects)

RECURSIVE SeqSum(_)
SeqSum(q) == IF Len(q) = 0 THEN 0 ELSE Head(q) + SeqSum(Tail(q))

Head3(lst) == SubSeq(lst, 1, IF Len(lst) < 3 THEN Len(lst) ELSE 3)

calculate_projects_score(resume_projects) ==
    IF Len(resume_projects) = 0
    THEN [score |-> Rat(0, 1), explanation |-> [message |-> "No projects found"]]
    ELSE LET loop == ProjectLoop(resume_projects, 1, << >>, << >>)
             project_scores == loop[1]
             relevant_projects == loop[2]
         IN  IF Len(project_scores) = 0
             THEN [score |-> Rat(0, 1),
                   explanation |-> [message |-> "No valid projects found"]]
             ELSE LET avg_similarity == Rat(SeqSum(project_scores),
                                            Len(project_scores))
                      score == RatMin(Rat(100, 1), avg_similarity)
                  IN  [score |-> score,
                       explanation |->
                          [total_projects |-> Len(resume_projects),
                           relevant_projects |-> Len(relevant_projects),
                           top_projects |-> Head3(relevant_projects)]]

\* the number of cosine_similarity calls calculate_projects_score makes
projects_similarity_calls(resume_projects) ==
    IF Len(resume_projects) = 0 THEN 0
    ELSE Len(ProjectLoop(resume_projects, 1, << >>, << >>)[1])

(***************************************************************************)
(* AIScorer.calculate_semantic_similarity                                  *)
(* similarity is cosine_similarity(encode(resume_text),                    *)
(* encode(job_description)), in hundredths; the result is a float in 0..1. *)
(***************************************************************************)
calculate_semantic_similarity(similarity) ==
    RatMax(Rat(0, 1), RatMin(Rat(1, 1), Rat(similarity, 100)))

(***************************************************************************)
(* AIScorer._generate_recommendations                                      *)
(***************************************************************************)
ShortlistThreshold == 7000

\* truth value of d.get(key) for a list value (None when the key is absent)
TruthyList(d, key) == key \in DOMAIN d /\ Len(d[key]) > 0

\* truth value of d.get(key) for a bool value (None when the key is absent)
TruthyBool(d, key) == key \in DOMAIN d /\ d[key]

generate_recommendations(overall_score, skills_explanation, experience_explanation, education_explanation) ==
    IF overall_score < ShortlistThreshold
    THEN (IF TruthyList(skills_explanation, "missing")
          THEN << <<"Missing key skills: ", Head3(skills_explanation.missing)>> >>
          ELSE << >>)
         \o
         (IF ~TruthyBool(experience_explanation, "meets_requirement")
          THEN << <<"Need more experience: ",
                    Get(experience_explanation, "required_years", 0),
                    " years required">> >>
          ELSE << >>)
         \o
         (IF ~TruthyBool(education_explanation, "meets_requirement")
          THEN << <<"Consider highlighting relevant education credentials">> >>
          ELSE << >>)
    ELSE << <<"Strong candidate! Well-matched for the role.">> >>

(***************************************************************************)
(* AIScorer.calculate_overall_score                                        *)
(***************************************************************************)
is_shortlisted_strictly_above(overall_score) ==
    overall_score > ShortlistThreshold

is_shortlisted_of(overall_score) == overall_score >= ShortlistThreshold

\* as select_weights, never looking at custom_weights
select_weights_defaults_only(custom_weights, scorer_weights) == scorer_weights

\* weights = custom_weights or self.weights (None and {} are both falsy)
select_weights(custom_weights, scorer_weights) ==
    IF Len(custom_weights) > 0 /\ DOMAIN custom_weights[1] # {}
    THEN custom_weights[1] ELSE scorer_weights

\* as weights_after_call, for `self.weights = custom_weights or self.weights`
weights_after_call_stored(custom_weights, scorer_weights) ==
    select_weights(custom_weights, scorer_weights)

\* self.weights after a call: the method only reads it
weights_after_call(custom_weights, scorer_weights) == scorer_weights

\* weights[c] * score, a float
Weighted(w, score) == Reduce(Rat(w * score.n, 100 * score.d))

RatAdd(a, b) == Reduce(Rat(a.n * b.d + b.n * a.d, a.d * b.d))

\* a dict d holds None under key: the keys holding None are listed in d.null
IsNone(d, key) == "null" \in DOMAIN d /\ key \in d.null

\* calculate_skills_score iterates resume_skills once required_skills is
\* non-empty: TypeError when resume_skills is None
skills_raises(resume_data, job_role) ==
    /\ IsNone(resume_data, "skills")
    /\ Len(Get(job_role, "required_skills", << >>)) > 0

\* calculate_experience_score: None == 0 is False, and >= between an int and
\* None (or None and None) is a TypeError
experience_raises(resume_data, job_role) ==
    \/ IsNone(job_role, "required_experience")
    \/ /\ IsNone(resume_data, "experience_years")
       /\ Get(job_role, "required_experience", 0) # 0

\* calculate_education_score calls job_role.lower() once resume_education is
\* non-empty: AttributeError when the title is None
education_raises(resume_data, job_role) ==
    /\ Len(Get(resume_data, "education", << >>)) > 0
    /\ IsNone(job_role, "title")

\* as contribution_of, the weight forgotten
contribution_of_score_only(w, score) == Round2(score)

\* round(weights[c] * score, 2), from the unrounded score
contribution_of(w, score) == Round2(Weighted(w, score))

calculate_overall_score(resume_data, job_role, custom_weights, similarity, scorer_weights) ==
    LET weights == select_weights(custom_weights, scorer_weights)
        \* 1. Semantic Similarity Score
        semantic_similarity == calculate_semantic_similarity(similarity)
        semantic_score == Rat(semantic_similarity.n * 100, semantic_similarity.d)
        \* 2. Skills Score
        skills == IF IsNone(resume_data, "skills")
                  THEN [score |-> Rat(50, 1),
                        explanation |-> [matched |-> << >>, missing |-> << >>,
                                         null |-> {"extra"}]]
                  ELSE calculate_skills_score(
                           Get(resume_data, "skills", << >>),
                           Get(job_role, "required_skills", << >>))
        \* 3. Experience Score
        experience == calculate_experience_score(
                          Get(resume_data, "experience_years", 0),
                          Get(job_role, "required_experience", 0))
        \* 4. Education Score
        education == calculate_education_score(
                         Get(resume_data, "education", << >>),
                         Get(job_role, "title", << >>))
        \* 5. Projects Score
        projects == calculate_projects_score(Get(resume_data, "projects", << >>))
        score == [semantic |-> semantic_score, skills |-> skills.score,
                  experience |-> experience.score, education |-> education.score,
                  projects |-> projects.score]
        details == [skills |-> skills.explanation,
                    experience |-> experience.explanation,
                    education |-> education.explanation,
                    projects |-> projects.explanation]
    IN  IF skills_raises(resume_data, job_role)
        THEN [raised |-> "TypeError"]
        ELSE IF experience_raises(resume_data, job_role)
        THEN [raised |-> "TypeError"]
        ELSE IF education_raises(resume_data, job_role)
        THEN [raised |-> "AttributeError"]
        ELSE IF ~(Components \subseteq DOMAIN weights)
        THEN [raised |-> "KeyError"]
        ELSE LET sum == RatAdd(RatAdd(RatAdd(RatAdd(
                            Weighted(weights.semantic, score.semantic),
                            Weighted(weights.skills, score.skills)),
                            Weighted(weights.experience, score.experience)),
                            Weighted(weights.education, score.education)),
                            Weighted(weights.projects, score.projects))
                 overall_score == Round2(sum)
                 is_shortlisted == is_shortlisted_of(overall_score)
                 entry(c) == [score |-> Round2(score[c]),
                              weight |-> weights[c],
                              contribution |-> contribution_of(weights[c], score[c])]
                 explanation ==
                    [overall_score |-> overall_score,
                     breakdown |->
                        [semantic |-> [score |-> entry("semantic").score,
                                       weight |-> entry("semantic").weight,
                                       contribution |-> entry("semantic").contribution,
                                       explanation |->
                                          <<"Semantic similarity: ",
                                            Round2(semantic_score), "%">>],
                         skills |-> [score |-> entry("skills").score,
                                     weight |-> entry("skills").weight,
                                     contribution |-> entry("skills").contribution,
                                     details |-> details.skills],
                         experience |-> [score |-> entry("experience").score,
                                         weight |-> entry("experience").weight,
                                         contribution |-> entry("experience").contribution,
                                         details |-> details.experience],
                         education |-> [score |-> entry("education").score,
                                        weight |-> entry("education").weight,
                                        contribution |-> entry("education").contribution,
                                        details |-> details.education],
                         projects |-> [score |-> entry("projects").score,
                                       weight |-> entry("projects").weight,
                                       contribution |-> entry("projects").contribution,
                                       details |-> details.projects]],
                     recommendations |->
                        generate_recommendations(overall_score, details.skills,
                            details.experience, details.education),
                     is_shortlisted |-> is_shortlisted]
             IN  [overall_score |-> overall_score,
                  semantic_score |-> Round2(score.semantic),
                  skills_score |-> Round2(score.skills),
                  experience_score |-> Round2(score.experience),
                  education_score |-> Round2(score.education),
                  projects_score |-> Round2(score.projects),
                  explanation |-> explanation,
                  is_shortlisted |-> is_shortlisted]

(***************************************************************************)
(* Inputs.                                                                 *)
(***************************************************************************)
s_python == <<"p","y","t","h","o","n">>

s_react == <<"r","e","a","c","t">>

s_aws == <<"a","w","s">>

s_AWS_padded == <<" ","A","W","S"," ">>

s_java == <<"j","a","v","a">>

s_javascript == <<"j","a","v","a","s","c","r","i","p","t">>

SkillPool == {s_python, s_aws, s_AWS_padded, s_java, s_javascript}

s_Data_Scientist == <<"D","a","t","a"," ","S","c","i","e","n","t","i","s","t">>

s_Software_Engineer == <<"S","o","f","t","w","a","r","e"," ","E","n","g","i","n","e","e","r">>

s_Web_Developer == <<"W","e","b"," ","D","e","v","e","l","o","p","e","r">>

s_Data_Analyst == <<"D","a","t","a"," ","A","n","a","l","y","s","t">>

s_Manager == <<"M","a","n","a","g","e","r">>

JobTitles == {s_Data_Scientist, s_Software_Engineer, s_Web_Developer,
              s_Data_Analyst, s_Manager}

e_bachelor == [degree |-> <<"B","a","c","h","e","l","o","r"," ","o","f"," ","S","c","i","e","n","c","e">>, details |-> <<"P","h","y","s","i","c","s">>]

e_phd == [degree |-> <<"P","h","D">>, details |-> << >>]

e_diploma == [degree |-> <<"D","i","p","l","o","m","a">>, details |-> <<"P","o","l","y","t","e","c","h","n","i","c">>]

e_details_only == [degree |-> <<"D","e","g","r","e","e">>, details |-> <<"M","a","s","t","e","r"," ","o","f"," ","A","r","t","s">>]

e_no_degree_key == [details |-> <<"B",".","E"," ","M","e","c","h","a","n","i","c","a","l">>]

EducationPool == {e_bachelor, e_phd, e_diploma, e_details_only, e_no_degree_key}

s_Chat == <<"C","h","a","t">>

s_bots == <<"b","o","t","s">>

s_robot == <<"r","o","b","o","t">>

s_ATS_Ranker == <<"A","T","S"," ","R","a","n","k","e","r">>

s_ranks_resumes == <<"r","a","n","k","s"," ","r","e","s","u","m","e","s">>

ProjectSims == {0 - 100, 30, 31, 40, 100}

ProjectPool ==
    {[title |-> s_Chat, sim |-> 100],
     [title |-> s_Chat, description |-> s_bots, sim |-> 100]}
    \cup {[title |-> s_Chat, description |-> s_robot, sim |-> c] :
             c \in ProjectSims}
    \cup {[title |-> s_ATS_Ranker, description |-> s_ranks_resumes, sim |-> c] :
             c \in {0 - 50, 40}}

SeqsUpTo(S, n) == UNION {[1..k -> S] : k \in 0..n}

Years == 0..MaxYears

(***************************************************************************)
(* The state machine.  Every scoring operation is a pure function of its   *)
(* arguments: the initial states are the scorer after __init__ together    *)
(* with one pending call (op, arg) drawn from the inputs; the action of    *)
(* an operation runs it and records what it returned (ret).                *)
(***************************************************************************)
SemanticSims == {0 - 100, 50, 100}

OverallSkills ==
    {<< << >>, << >> >>,
     << << >>, <<s_aws>> >>,
     << <<s_python, s_react>>, <<s_python, s_react, s_aws>> >>,
     << <<s_python, s_react>>, <<s_python>> >>}

OverallResumeYears == {0, 2, 3}

OverallRequiredYears == {0, 3}

OverallEducation == {<< >>, <<e_bachelor>>, <<e_phd>>}

OverallTitles == {s_Data_Scientist, s_Manager}

OverallProjects ==
    {<< >>,
     <<[title |-> s_Chat, sim |-> 100]>>,
     <<[title |-> s_Chat, description |-> s_robot, sim |-> 0 - 100]>>,
     <<[title |-> s_Chat, description |-> s_robot, sim |-> 40]>>,
     <<[title |-> s_Chat, description |-> s_robot, sim |-> 100],
       [title |-> s_ATS_Ranker, description |-> s_ranks_resumes, sim |-> 40]>>}

s_description == <<"j","o","b">>

s_resume == <<"c","v">>

\* custom_weights: None, {}, a mapping without 'projects', and full mappings
OverallWeights ==
    {<< >>,
     << << >> >>,
     <<[semantic |-> 40, skills |-> 30, experience |-> 20, education |-> 10]>>,
     <<[semantic |-> 0, skills |-> 0, experience |-> 0, education |-> 0,
        projects |-> 100]>>,
     <<[semantic |-> 20, skills |-> 20, experience |-> 20, education |-> 20,
        projects |-> 20]>>,
     <<[semantic |-> 50, skills |-> 50, experience |-> 50, education |-> 0 - 10,
        projects |-> 10]>>,
     <<[semantic |-> 50, skills |-> 50, experience |-> 50, education |-> 10,
        projects |-> 10]>>}

OverallCalls ==
    {[resume_data |-> [raw_text |-> s_resume, skills |-> sk[1],
                       experience_years |-> a, education |-> e, projects |-> p],
      job_role |-> [title |-> t, description |-> s_description,
                    required_skills |-> sk[2], required_experience |-> b],
      custom_weights |-> w,
      similarity |-> c] :
        sk \in OverallSkills, a \in OverallResumeYears, b \in OverallRequiredYears,
        e \in OverallEducation, t \in OverallTitles, p \in OverallProjects,
        w \in OverallWeights, c \in SemanticSims}

\* the scenario: skills {python, react} against required {python, react, aws}
ScenarioSkillsCall ==
    [resume_skills |-> <<s_python, s_react>>,
     required_skills |-> <<s_python, s_react, s_aws>>]

SkillsCalls ==
    {[resume_skills |-> r, required_skills |-> q] :
        r \in SeqsUpTo(SkillPool, MaxResumeSkills),
        q \in SeqsUpTo(SkillPool, MaxRequiredSkills)}
    \cup {ScenarioSkillsCall}

ExperienceCalls ==
    {[resume_years |-> a, required_years |-> b] : a \in Years, b \in Years}

EducationCalls ==
    {[resume_education |-> e, job_role |-> t] :
        e \in SeqsUpTo(EducationPool, MaxEducation), t \in JobTitles}

ProjectsCalls ==
    {[resume_projects |-> p] : p \in SeqsUpTo(ProjectPool, MaxProjects)}

\* no web request in flight, the stores as the applications create them
ServicesIdle ==
    /\ threads = << >>
    /\ processing_state = [total_files |-> 0, processed_files |-> 0, current_status |-> "idle"]
    /\ uploads = [path \in {} |-> << >>]
    /\ requests = << >>
    /\ db = [screening_results |-> << >>, resumes |-> << >>, analyses |-> << >>, email_logs |-> << >>]
    /\ smtp_configured = TRUE

InitCall(o, calls) ==
    /\ pc = "call"
    /\ op = o
    /\ arg \in calls
    /\ ret = << >>
    /\ simCalls = 0
    /\ self_weights = DefaultWeights
    /\ history = {}
    /\ ServicesIdle

InitSkills == InitCall("calculate_skills_score", SkillsCalls)

InitExperience == InitCall("calculate_experience_score", ExperienceCalls)

InitEducation == InitCall("calculate_education_score", EducationCalls)

InitProjects == InitCall("calculate_projects_score", ProjectsCalls)

InitOverall == InitCall("calculate_overall_score", OverallCalls)

Init ==
    \/ InitSkills
    \/ InitExperience
    \/ InitEducation
    \/ InitProjects
    \/ InitOverall

SkillsScore ==
    /\ pc = "call"
    /\ op = "calculate_skills_score"
    /\ ret' = calculate_skills_score(arg.resume_skills, arg.required_skills)
    /\ pc' = "return"
    /\ UNCHANGED <<op, arg, simCalls, self_weights, history, services>>

ExperienceScore ==
    /\ pc = "call"
    /\ op = "calculate_experience_score"
    /\ ret' = calculate_experience_score(arg.resume_years, arg.required_years)
    /\ pc' = "return"
    /\ UNCHANGED <<op, arg, simCalls, self_weights, history, services>>

EducationScore ==
    /\ pc = "call"
    /\ op = "calculate_education_score"
    /\ ret' = calculate_education_score(arg.resume_education, arg.job_role)
    /\ pc' = "return"
    /\ UNCHANGED <<op, arg, simCalls, self_weights, history, services>>

ProjectsScore ==
    /\ pc = "call"
    /\ op = "calculate_projects_score"
    /\ ret' = calculate_projects_score(arg.resume_projects)
    /\ simCalls' = simCalls + projects_similarity_calls(arg.resume_projects)
    /\ pc' = "return"
    /\ UNCHANGED <<op, arg, self_weights, history, services>>

OverallScore ==
    /\ pc = "call"
    /\ op = "calculate_overall_score"
    /\ ret' = calculate_overall_score(arg.resume_data, arg.job_role,
                                      arg.custom_weights, arg.similarity,
                                      self_weights)
    /\ simCalls' = simCalls + 1
                    + projects_similarity_calls(
                          Get(arg.resume_data, "projects", << >>))
    /\ self_weights' = weights_after_call(arg.custom_weights, self_weights)
    /\ history' = history \cup {[arg |-> arg, ret |-> ret']}
    /\ pc' = "return"
    /\ UNCHANGED <<op, arg, services>>

Next ==
    \/ OverallScore
    \/ SkillsScore
    \/ ExperienceScore
    \/ EducationScore
    \/ ProjectsScore

Spec == Init /\ [][Next]_vars

\* one specification per operation: the calls of that operation alone
SpecSkills == InitSkills /\ [][SkillsScore]_vars

SpecExperience == InitExperience /\ [][ExperienceScore]_vars

SpecEducation == InitEducation /\ [][EducationScore]_vars

SpecProjects == InitProjects /\ [][ProjectsScore]_vars

SpecOverall == InitOverall /\ [][OverallScore]_vars

\* calculate_projects_score on longer lists of scored projects
MaxRankedProjects == 4

RankedProjectsCalls ==
    {[resume_projects |-> p] :
        p \in SeqsUpTo({[title |-> s_Chat, description |-> s_robot, sim |-> c] :
                            c \in {30, 40, 100}},
                       MaxRankedProjects)}

InitRankedProjects == InitCall("calculate_projects_score", RankedProjectsCalls)

SpecRankedProjects == InitRankedProjects /\ [][ProjectsScore]_vars

(***************************************************************************)
(* calculate_overall_score on incomplete data: one optional key of the     *)
(* profile or the job role absent, or present and None.  raw_text and      *)
(* description are only taken absent: None would go straight to the        *)
(* embedding model, which is outside this code.                            *)
(***************************************************************************)
\* the dict d without key
Absent(d, key) == [k \in DOMAIN d \ {key} |-> d[k]]

\* the dict d with None under key
Nulled(d, key) ==
    [k \in (DOMAIN d \ {key}) \cup {"null"} |-> IF k = "null" THEN {key} ELSE d[k]]

ProfileKeys == {"skills", "experience_years", "education", "projects"}

RoleKeys == {"title", "required_skills", "required_experience"}

CompleteProfiles ==
    {[raw_text |-> s_resume, skills |-> <<s_python>>, experience_years |-> 2,
      education |-> e,
      projects |-> <<[title |-> s_Chat, description |-> s_robot, sim |-> 40]>>] :
        e \in {<< >>, <<e_bachelor>>}}

CompleteRoles ==
    {[title |-> s_Software_Engineer, description |-> s_description,
      required_skills |-> r[1], required_experience |-> r[2]] :
        r \in {<< << >>, 0 >>, << <<s_aws>>, 3 >>}}

ProfileVariants(d) ==
    {d, Absent(d, "raw_text")}
    \cup {Absent(d, k) : k \in ProfileKeys} \cup {Nulled(d, k) : k \in ProfileKeys}

RoleVariants(d) ==
    {d, Absent(d, "description")}
    \cup {Absent(d, k) : k \in RoleKeys} \cup {Nulled(d, k) : k \in RoleKeys}

\* one side incomplete at a time, default weights
DegradedCalls ==
    {[resume_data |-> v, job_role |-> r, custom_weights |-> << >>, similarity |-> 50] :
        v \in UNION {ProfileVariants(d) : d \in CompleteProfiles}, r \in CompleteRoles}
    \cup
    {[resume_data |-> d, job_role |-> v, custom_weights |-> << >>, similarity |-> 50] :
        d \in CompleteProfiles, v \in UNION {RoleVariants(r) : r \in CompleteRoles}}

InitDegraded == InitCall("calculate_overall_score", DegradedCalls)

SpecOverallDegraded == InitDegraded /\ [][OverallScore]_vars

(***************************************************************************)
(* A session: one scorer serving any sequence of calculate_overall_score   *)
(* calls (the module-level scorer of src/main.py serves every request).    *)
(***************************************************************************)
SessionProfiles ==
    {[raw_text |-> s_resume, skills |-> <<s_python, s_react>>,
      experience_years |-> 2, education |-> <<e_bachelor>>,
      projects |-> <<[title |-> s_Chat, description |-> s_robot, sim |-> 40]>>],
     [raw_text |-> s_resume, skills |-> << >>,
      experience_years |-> 0, education |-> << >>, projects |-> << >>]}

SessionRole ==
    [title |-> s_Data_Scientist, description |-> s_description,
     required_skills |-> <<s_python, s_react, s_aws>>, required_experience |-> 3]

SessionWeights ==
    {<< >>,
     <<[semantic |-> 0, skills |-> 0, experience |-> 0, education |-> 0,
        projects |-> 100]>>,
     <<[semantic |-> 20, skills |-> 20, experience |-> 20, education |-> 20,
        projects |-> 20]>>}

SessionCalls ==
    {[resume_data |-> p, job_role |-> SessionRole, custom_weights |-> w,
      similarity |-> c] :
        p \in SessionProfiles, w \in SessionWeights, c \in {50}}

InitSession ==
    /\ pc = "idle"
    /\ op = "none"
    /\ arg = << >>
    /\ ret = << >>
    /\ simCalls = 0
    /\ self_weights = DefaultWeights
    /\ history = {}
    /\ ServicesIdle

\* a caller invokes scorer.calculate_overall_score(...)
Invoke ==
    /\ pc \in {"idle", "return"}
    /\ \E call \in SessionCalls : arg' = call
    /\ op' = "calculate_overall_score"
    /\ pc' = "call"
    /\ ret' = << >>
    /\ simCalls' = 0
    /\ UNCHANGED <<self_weights, history, services>>

NextSession ==
    \/ Invoke
    \/ OverallScore

SpecSession == InitSession /\ [][NextSession]_vars

(***************************************************************************)
(* ResumeParser._extract_experience_years and _extract_experience          *)
(* (src/resume_parser.py).  A text is a sequence of lines, a line a        *)
(* sequence of words; a word records its lowercased spelling, the number   *)
(* it spells (numeric words) and how many letters it starts with.          *)
(***************************************************************************)
MaxLines == 3

Word(w, n, lead) == [w |-> w, n |-> n, lead |-> lead]

w_years == Word("years", 0, 5)

w_of == Word("of", 0, 2)

w_experience == Word("experience", 0, 10)

w_num(n) == Word("num", n, 0)

\* "<n> years of experience"
line_years_of_experience(n) == <<w_num(n), w_years, w_of, w_experience>>

\* "experience: <n> years"
line_experience_years(n) == <<w_experience, w_num(n), w_years>>

\* the job entries "Dev - 2019 - 2021" and "QA - 2017 - 2019", one word each
line_job_dev == <<Word("dev - 2019 - 2021", 0, 3)>>

line_job_qa == <<Word("qa - 2017 - 2019", 0, 2)>>

\* the section headings "Experience" and "Skills"
line_experience == <<w_experience>>

line_skills == <<Word("skills", 0, 6)>>

RECURSIVE words_of(_)
words_of(lines) ==
    IF lines = << >> THEN << >> ELSE Head(lines) \o words_of(Tail(lines))

IsWord(words, i, w) == i <= Len(words) /\ words[i].w = w

\* length in words of the match of patterns[p] that starts at word i, 0 when
\* there is none:
\*   (\d+)\+?\s*(?:years?|yrs?)\s*(?:of\s*)?(?:experience|exp)
\*   (?:experience|exp)[:;]?\s*(\d+)\+?\s*(?:years?|yrs?)
MatchLen(p, words, i) ==
    IF p = 1
    THEN IF IsWord(words, i, "num") /\ IsWord(words, i + 1, "years")
         THEN IF IsWord(words, i + 2, "of") /\ IsWord(words, i + 3, "experience")
              THEN 4
              ELSE IF IsWord(words, i + 2, "experience") THEN 3 ELSE 0
         ELSE 0
    ELSE IF /\ IsWord(words, i, "experience")
            /\ IsWord(words, i + 1, "num")
            /\ IsWord(words, i + 2, "years")
         THEN 3
         ELSE 0

\* the group (\d+) of the match of patterns[p] that starts at word i
Group(p, words, i) == IF p = 1 THEN words[i].n ELSE words[i + 1].n

\* re.findall(patterns[p], text.lower()): the groups of the non-overlapping
\* matches, leftmost first, scanning from word i
RECURSIVE findall(_, _, _)
findall(p, words, i) ==
    IF i > Len(words) THEN << >>
    ELSE LET k == MatchLen(p, words, i)
         IN  IF k > 0
             THEN <<Group(p, words, i)>> \o findall(p, words, i + k)
             ELSE findall(p, words, i + 1)

\* if matches: years = max(years, int(matches[0]))
years_after(matches, years) ==
    IF Len(matches) > 0
    THEN (IF matches[1] > years THEN matches[1] ELSE years)
    ELSE years

\* the loop over the two patterns, from years = 0
explicit_years(words) ==
    years_after(findall(2, words, 1), years_after(findall(1, words, 1), 0))

IsJobLine(line) == line[1].w \in {"dev - 2019 - 2021", "qa - 2017 - 2019"}

HasExperience(line) == \E k \in 1..Len(line) : line[k].w = "experience"

FirstExperience(line) == SetMin({k \in 1..Len(line) : line[k].w = "experience"})

\* exp_pattern matches from the word "experience" of line i: (.+?) needs text
\* after it
CanStart(lines, i) ==
    /\ HasExperience(lines[i])
    /\ FirstExperience(lines[i]) < Len(lines[i]) \/ i < Len(lines)

\* _extract_experience: the job entries of the text between the first
\* "experience" and the next line that starts with three letters or more
\* (\n[A-Z]{3,} under re.IGNORECASE), or the end of the text
extract_experience(lines) ==
    LET starts == {i \in 1..Len(lines) : CanStart(lines, i)}
    IN  IF starts = {} THEN << >>
        ELSE LET h == SetMin(starts)
                 first == IF FirstExperience(lines[h]) < Len(lines[h])
                          THEN h ELSE h + 1
                 ends == {j \in (first + 1)..Len(lines) : lines[j][1].lead >= 3}
                 last == IF ends = {} THEN Len(lines) ELSE SetMin(ends) - 1
             IN  SelectSeq(SubSeq(lines, h + 1, last), IsJobLine)

extract_experience_years(lines) ==
    LET years == explicit_years(words_of(lines))
    IN  IF years = 0
        THEN LET exp_entries == extract_experience(lines)
             IN  IF Len(exp_entries) > 0 THEN Len(exp_entries) ELSE years
        ELSE years

MentionYears == {0, 3, 10}

LinePool ==
    {line_years_of_experience(n) : n \in MentionYears}
    \cup {line_experience_years(n) : n \in MentionYears}
    \cup {line_job_dev, line_job_qa, line_experience, line_skills}

ExperienceYearsCalls == {[text |-> t] : t \in SeqsUpTo(LinePool, MaxLines)}

InitExperienceYears == InitCall("_extract_experience_years", ExperienceYearsCalls)

ExtractExperienceYears ==
    /\ pc = "call"
    /\ op = "_extract_experience_years"
    /\ ret' = extract_experience_years(arg.text)
    /\ pc' = "return"
    /\ UNCHANGED <<op, arg, simCalls, self_weights, history, services>>

SpecExperienceYears == InitExperienceYears /\ [][ExtractExperienceYears]_vars

(***************************************************************************)
(* Text extraction: ResumeParser._extract_from_pdf, _extract_from_docx     *)
(* (src/resume_parser.py) and extract_text_from_pdf                        *)
(* (src/ATS_resume_analyzer/utils.py).  A document is the sequence of its  *)
(* units (pages or paragraphs); a unit either yields its text (empty for a *)
(* page without text) or fails with an exception when it is read.          *)
(***************************************************************************)
MaxUnits == 3

Unit(text) == [fails |-> FALSE, text |-> text]

FailingUnit == [fails |-> TRUE, text |-> << >>]

\* for page in pdf.pages: text += page.extract_text() or "", inside one
\* try/except around the whole loop: the first exception ends the loop
RECURSIVE pdf_loop(_, _, _)
pdf_loop(pages, i, text) ==
    IF i > Len(pages) THEN text
    ELSE IF pages[i].fails THEN text
    ELSE pdf_loop(pages, i + 1, text \o pages[i].text)

extract_from_pdf(pages) == pdf_loop(pages, 1, << >>)

\* for paragraph in doc.paragraphs: text += paragraph.text + "\n", inside
\* one try/except around the whole loop
RECURSIVE docx_loop(_, _, _)
docx_loop(paragraphs, i, text) ==
    IF i > Len(paragraphs) THEN text
    ELSE IF paragraphs[i].fails THEN text
    ELSE docx_loop(paragraphs, i + 1, text \o paragraphs[i].text \o <<"\n">>)

extract_from_docx(paragraphs) == docx_loop(paragraphs, 1, << >>)

\* utils: if page_text: text += page_text + "\n"
RECURSIVE utils_pdf_loop(_, _, _)
utils_pdf_loop(pages, i, text) ==
    IF i > Len(pages) THEN text
    ELSE IF Len(pages[i].text) > 0
    THEN utils_pdf_loop(pages, i + 1, text \o pages[i].text \o <<"\n">>)
    ELSE utils_pdf_loop(pages, i + 1, text)

\* utils: the try covers the whole function, any exception returns ""
extract_text_from_pdf(pages) ==
    IF \E i \in 1..Len(pages) : pages[i].fails
    THEN << >>
    ELSE strip(utils_pdf_loop(pages, 1, << >>))

u_Skills == <<"S","k","i","l","l","s">>

u_Python == <<"P","y","t","h","o","n">>

u_two_lines == <<"J","a","v","a","\n","S","Q","L">>

UnitPool == {Unit(<< >>), Unit(u_Skills), Unit(u_Python), Unit(u_two_lines), FailingUnit}

ExtractOps == {"_extract_from_pdf", "_extract_from_docx", "extract_text_from_pdf"}

ExtractCalls == {[units |-> d] : d \in SeqsUpTo(UnitPool, MaxUnits)}

InitExtract ==
    /\ pc = "call"
    /\ op \in ExtractOps
    /\ arg \in ExtractCalls
    /\ ret = << >>
    /\ simCalls = 0
    /\ self_weights = DefaultWeights
    /\ history = {}
    /\ ServicesIdle

ExtractFromPdf ==
    /\ pc = "call"
    /\ op = "_extract_from_pdf"
    /\ ret' = extract_from_pdf(arg.units)
    /\ pc' = "return"
    /\ UNCHANGED <<op, arg, simCalls, self_weights, history, services>>

ExtractFromDocx ==
    /\ pc = "call"
    /\ op = "_extract_from_docx"
    /\ ret' = extract_from_docx(arg.units)
    /\ pc' = "return"
    /\ UNCHANGED <<op, arg, simCalls, self_weights, history, services>>

ExtractTextFromPdf ==
    /\ pc = "call"
    /\ op = "extract_text_from_pdf"
    /\ ret' = extract_text_from_pdf(arg.units)
    /\ pc' = "return"
    /\ UNCHANGED <<op, arg, simCalls, self_weights, history, services>>

NextExtract ==
    \/ ExtractFromPdf
    \/ ExtractFromDocx
    \/ ExtractTextFromPdf

SpecExtract == InitExtract /\ [][NextExtract]_vars

(***************************************************************************)
(* ResumeParser.parse and its field extractors (src/resume_parser.py).     *)
(* The text of a resume is a str (a sequence of characters); the regular   *)
(* expressions of the extractors are computed on it position by position.  *)
(***************************************************************************)
MaxBlocks == 2

LowerSet == {LowerCase[i] : i \in 1..26}

IsUpper(c) == c \in DOMAIN UpperIndex

IsLower(c) == c \in LowerSet

IsLetter(c) == IsUpper(c) \/ IsLower(c)

DigitValue == [c \in {"0","1","2","3","4","5","6","7","8","9"} |-> CHOOSE v \in 0..9 : <<"0","1","2","3","4","5","6","7","8","9">>[v + 1] = c]

IsDigit(c) == c \in DOMAIN DigitValue

\* \w
IsWordChar(c) == IsLetter(c) \/ IsDigit(c) \/ c = "_"

\* s[i], "" outside the string
CharAt(s, i) == IF i \in 1..Len(s) THEN s[i] ELSE ""

\* the string sub occurs in s at position i
StartsWithAt(s, i, sub) ==
    /\ i >= 1
    /\ i + Len(sub) - 1 <= Len(s)
    /\ SubSeq(s, i, i + Len(sub) - 1) = sub

\* the end of the longest run of characters satisfying P that starts at i
\* (i - 1 when s[i] does not satisfy P)
RunEnd(P(_), s, i) ==
    SetMax({e \in (i - 1)..Len(s) : \A j \in i..e : P(s[j])})

\* str.split('\n')
RECURSIVE split_lines(_)
split_lines(s) ==
    LET breaks == {i \in 1..Len(s) : s[i] = "\n"}
    IN  IF breaks = {} THEN <<s>>
        ELSE LET p == SetMin(breaks)
             IN  <<SubSeq(s, 1, p - 1)>> \o split_lines(SubSeq(s, p + 1, Len(s)))

\* s[:n]
Prefix(s, n) == SubSeq(s, 1, IF Len(s) < n THEN Len(s) ELSE n)

\* re.match(r'^[A-Z][a-z]+ [A-Z][a-z]+', line)
name_like(line) ==
    /\ IsUpper(CharAt(line, 1))
    /\ LET k == RunEnd(IsLower, line, 2)
       IN  /\ k >= 2
           /\ CharAt(line, k + 1) = " "
           /\ IsUpper(CharAt(line, k + 2))
           /\ IsLower(CharAt(line, k + 3))

\* as is_name_line, without the name pattern
is_name_line_any_text(line) == Len(strip(line)) > 3 /\ Len(strip(line)) < 50

is_name_line(line) ==
    /\ Len(strip(line)) > 3
    /\ Len(strip(line)) < 50
    /\ name_like(strip(line))

\* _extract_name: Optional[str]
extract_name(text) ==
    LET lines == Prefix(split_lines(text), 5)
        found == {i \in 1..Len(lines) : is_name_line(lines[i])}
    IN  IF found = {} THEN << >> ELSE <<strip(lines[SetMin(found)])>>

\* \b before position i
Boundary(s, i) == IsWordChar(CharAt(s, i - 1)) # IsWordChar(CharAt(s, i))

IsLocalChar(c) == IsLetter(c) \/ IsDigit(c) \/ c \in {".", "_", "%", "+", "-"}

IsDomainChar(c) == IsLetter(c) \/ IsDigit(c) \/ c \in {".", "-"}

IsTldChar(c) == IsLetter(c) \/ c = "|"

\* the starts of [A-Za-z0-9._%+-]+ that end just before the "@" at p and
\* stand at a \b
email_starts(s, p) ==
    {i \in 1..(p - 1) : Boundary(s, i) /\ \A j \in i..(p - 1) : IsLocalChar(s[j])}

\* the ends t of \.[A-Z|a-z]{2,}\b for the "." at q
email_tld_ends(s, q) ==
    {t \in (q + 2)..RunEnd(IsTldChar, s, q + 1) : Boundary(s, t + 1)}

\* the "." that can close [A-Za-z0-9.-]+ after the "@" at p
email_dots(s, p) ==
    {q \in (p + 2)..RunEnd(IsDomainChar, s, p + 1) :
        s[q] = "." /\ email_tld_ends(s, q) # {}}

\* _extract_email: re.search, the leftmost match, each part greedy
extract_email(text) ==
    LET ats == {p \in 1..Len(text) :
                   /\ text[p] = "@"
                   /\ email_starts(text, p) # {}
                   /\ email_dots(text, p) # {}}
    IN  IF ats = {} THEN << >>
        ELSE LET p == SetMin(ats)
                 q == SetMax(email_dots(text, p))
             IN  <<SubSeq(text, SetMin(email_starts(text, p)),
                          SetMax(email_tld_ends(text, q)))>>

skills_keywords ==
    << <<"p","y","t","h","o","n">>, <<"j","a","v","a">>, <<"j","a","v","a","s","c","r","i","p","t">>, <<"r","e","a","c","t">>, <<"n","o","d","e",".","j","s">>, <<"s","q","l">>,
       <<"m","o","n","g","o","d","b">>, <<"p","o","s","t","g","r","e","s","q","l">>, <<"a","w","s">>, <<"d","o","c","k","e","r">>, <<"k","u","b","e","r","n","e","t","e","s">>,
       <<"g","i","t">>, <<"m","a","c","h","i","n","e"," ","l","e","a","r","n","i","n","g">>, <<"d","e","e","p"," ","l","e","a","r","n","i","n","g">>, <<"t","e","n","s","o","r","f","l","o","w">>,
       <<"p","y","t","o","r","c","h">>, <<"s","c","i","k","i","t","-","l","e","a","r","n">>, <<"p","a","n","d","a","s">>, <<"n","u","m","p","y">>, <<"f","l","a","s","k">>,
       <<"f","a","s","t","a","p","i">>, <<"d","j","a","n","g","o">>, <<"h","t","m","l">>, <<"c","s","s">>, <<"t","y","p","e","s","c","r","i","p","t">>,
       <<"a","n","g","u","l","a","r">>, <<"v","u","e">>, <<"r","e","d","i","s">>, <<"e","l","a","s","t","i","c","s","e","a","r","c","h">>, <<"k","a","f","k","a">>,
       <<"s","p","a","r","k">>, <<"h","a","d","o","o","p">>, <<"t","a","b","l","e","a","u">>, <<"p","o","w","e","r"," ","b","i">>, <<"a","z","u","r","e">>, <<"g","c","p">>,
       <<"l","i","n","u","x">>, <<"b","a","s","h">> >>

\* _extract_skills: list(set(found_skills)), a list in no particular order,
\* kept as the set of its elements.  A keyword found in the skills section is
\* also found in the whole text, so found_skills holds the keywords of the
\* whole lowercased text.
extract_skills(text) ==
    LET text_lower == lower(text)
    IN  {skills_keywords[k] : k \in {j \in 1..Len(skills_keywords) : In(skills_keywords[j], text_lower)}}

\* the section patterns
\*   (?:<headers>)[:;]?\s*(.+?)(?:\n\n\n|\n[A-Z]{3,}|$)
\* under re.IGNORECASE | re.DOTALL: the position after which (.+?) can end
section_ends_before(text, j) ==
    \/ j = Len(text) + 1
    \/ j = Len(text) /\ text[j] = "\n"
    \/ StartsWithAt(text, j, <<"\n", "\n", "\n">>)
    \/ /\ CharAt(text, j) = "\n"
       /\ IsLetter(CharAt(text, j + 1))
       /\ IsLetter(CharAt(text, j + 2))
       /\ IsLetter(CharAt(text, j + 3))

\* the headers (in the order the pattern tries them) that match at i with
\* at least one character after them for (.+?)
section_headers_at(text, headers, i) ==
    {k \in 1..Len(headers) :
        /\ StartsWithAt(lower(text), i, headers[k])
        /\ i + Len(headers[k]) <= Len(text)}

\* re.search(section pattern).group(1), Optional: the leftmost header, then
\* [:;]? and \s* greedy (giving back the last character when they reach the
\* end of the text), then the shortest text up to a section end
section(text, headers) ==
    LET starts == {i \in 1..Len(text) : section_headers_at(text, headers, i) # {}}
    IN  IF starts = {} THEN << >>
        ELSE LET i == SetMin(starts)
                 h == i + Len(headers[SetMin(section_headers_at(text, headers, i))])
                 c == IF text[h] \in {":", ";"} THEN h + 1 ELSE h
                 a == RunEnd(IsSpace, text, c) + 1
                 g == IF a > Len(text) THEN Len(text) ELSE a
                 e == SetMin({j \in g..Len(text) : section_ends_before(text, j + 1)})
             IN  <<SubSeq(text, g, e)>>

\* s split at the positions of breaks (each a single character, dropped)
RECURSIVE split_at(_, _)
split_at(s, breaks) ==
    IF breaks = {} THEN <<s>>
    ELSE LET p == SetMin(breaks)
         IN  <<SubSeq(s, 1, p - 1)>>
             \o split_at(SubSeq(s, p + 1, Len(s)), {b - p : b \in breaks \ {p}})

\* (bachelor|master|phd|b\.?tech|m\.?tech|b\.?e|m\.?e|diploma), each \.?
\* tried with the dot first
degree_alternatives ==
    << <<"b","a","c","h","e","l","o","r">>, <<"m","a","s","t","e","r">>, <<"p","h","d">>, <<"b",".","t","e","c","h">>, <<"b","t","e","c","h">>, <<"m",".","t","e","c","h">>,
       <<"m","t","e","c","h">>, <<"b",".","e">>, <<"b","e">>, <<"m",".","e">>, <<"m","e">>, <<"d","i","p","l","o","m","a">> >>

IsNotNewline(c) == c # "\n"

\* re.findall(degree_pattern, edu_text, re.IGNORECASE) from position i: the
\* group of each match; [^\n]* takes the rest of the line
RECURSIVE find_degrees(_, _, _)
find_degrees(edu_text, edu_lower, i) ==
    IF i > Len(edu_text) THEN << >>
    ELSE LET ks == {k \in 1..Len(degree_alternatives) :
                       StartsWithAt(edu_lower, i, degree_alternatives[k])}
         IN  IF ks = {} THEN find_degrees(edu_text, edu_lower, i + 1)
             ELSE LET last == i + Len(degree_alternatives[SetMin(ks)]) - 1
                  IN  <<SubSeq(edu_text, i, last)>>
                      \o find_degrees(edu_text, edu_lower,
                                      RunEnd(IsNotNewline, edu_text, last + 1) + 1)

education_headers == << <<"e","d","u","c","a","t","i","o","n">>, <<"a","c","a","d","e","m","i","c">>, <<"q","u","a","l","i","f","i","c","a","t","i","o","n">> >>

\* _extract_education
extract_education(text) ==
    LET edu_match == section(text, education_headers)
    IN  IF edu_match = << >> THEN << >>
        ELSE LET edu_text == edu_match[1]
                 degrees == find_degrees(edu_text, lower(edu_text), 1)
             IN  [k \in 1..Len(degrees) |->
                     [degree |-> strip(degrees[k]), details |-> Prefix(edu_text, 200)]]

\* projects?|project experience, the optional s tried first
project_headers == << <<"p","r","o","j","e","c","t","s">>, <<"p","r","o","j","e","c","t">>, <<"p","r","o","j","e","c","t"," ","e","x","p","e","r","i","e","n","c","e">> >>

\* the "\n" at which re.split(r'\n(?=[A-Z]|\d+\.)') cuts
project_breaks(proj_text) ==
    {i \in 1..Len(proj_text) :
        /\ proj_text[i] = "\n"
        /\ \/ IsUpper(CharAt(proj_text, i + 1))
           \/ LET d == RunEnd(IsDigit, proj_text, i + 1)
              IN  d >= i + 1 /\ CharAt(proj_text, d + 1) = "."}

is_project_entry(entry) == Len(strip(entry)) > 20

\* _extract_projects
extract_projects(text) ==
    LET proj_match == section(text, project_headers)
    IN  IF proj_match = << >> THEN << >>
        ELSE LET proj_text == proj_match[1]
                 project_entries == split_at(proj_text, project_breaks(proj_text))
                 kept == SelectSeq(Prefix(project_entries, 5), is_project_entry)
             IN  [k \in 1..Len(kept) |->
                     [title |-> strip(split_lines(kept[k])[1]),
                      description |-> Prefix(kept[k], 300)]]

\* certifications?|certificates?|credentials?, each optional s tried first
certification_headers ==
    << <<"c","e","r","t","i","f","i","c","a","t","i","o","n","s">>, <<"c","e","r","t","i","f","i","c","a","t","i","o","n">>, <<"c","e","r","t","i","f","i","c","a","t","e","s">>,
       <<"c","e","r","t","i","f","i","c","a","t","e">>, <<"c","r","e","d","e","n","t","i","a","l","s">>, <<"c","r","e","d","e","n","t","i","a","l">> >>

certification_keywords ==
    { <<"c","e","r","t","i","f","i","e","d">>, <<"c","e","r","t","i","f","i","c","a","t","i","o","n">>, <<"a","w","s">>, <<"g","o","o","g","l","e">>, <<"m","i","c","r","o","s","o","f","t">> }

is_certification(entry) ==
    /\ Len(entry) > 5
    /\ \E keyword \in certification_keywords : In(keyword, lower(entry))

\* _extract_certifications
extract_certifications(text) ==
    LET cert_match == section(text, certification_headers)
    IN  IF cert_match = << >> THEN << >>
        ELSE LET cert_entries == split_lines(cert_match[1])
                 stripped == [k \in 1..Len(cert_entries) |-> strip(cert_entries[k])]
             IN  SelectSeq(stripped, is_certification)

\* int(digits)
RECURSIVE to_int(_)
to_int(digits) ==
    IF Len(digits) = 0 THEN 0
    ELSE 10 * to_int(SubSeq(digits, 1, Len(digits) - 1)) + DigitValue[digits[Len(digits)]]

c_job_dev == <<"D","e","v"," ","-"," ","2","0","1","9"," ","-"," ","2","0","2","1">>

c_job_qa == <<"Q","A"," ","-"," ","2","0","1","7"," ","-"," ","2","0","1","9">>

\* the word of the experience model that a word of the text spells
lex_word(word) ==
    LET w == lower(word)
    IN  IF \A i \in 1..Len(word) : IsDigit(word[i]) THEN w_num(to_int(word))
        ELSE IF w = <<"y","e","a","r","s">> THEN w_years
        ELSE IF w = <<"o","f">> THEN w_of
        ELSE IF w \in { <<"e","x","p","e","r","i","e","n","c","e">>, <<"e","x","p","e","r","i","e","n","c","e",":">> } THEN w_experience
        ELSE Word("other", 0, RunEnd(IsLetter, word, 1))

\* the line of the experience model that a line of the text spells
lex_line(line) ==
    IF line = c_job_dev THEN line_job_dev
    ELSE IF line = c_job_qa THEN line_job_qa
    ELSE LET words == SelectSeq(split_at(line, {i \in 1..Len(line) : line[i] = " "}),
                                LAMBDA x : Len(x) > 0)
         IN  [k \in 1..Len(words) |-> lex_word(words[k])]

\* the non-empty lines of the text, as lines of words
lex(text) ==
    LET lines == SelectSeq(split_lines(text), LAMBDA x : Len(strip(x)) > 0)
    IN  [k \in 1..Len(lines) |-> lex_line(lines[k])]

s_pdf == <<".","p","d","f">>

s_docx == <<".","d","o","c","x">>

s_doc == <<".","d","o","c">>

\* parse: a file is its path's extension, whether the library opens it, and
\* the text the library reads from it; _extract_from_pdf and
\* _extract_from_docx return "" for a file that cannot be opened
parse(file) ==
    LET file_ext == lower(file.ext)
        text == IF file.opens THEN file.text ELSE << >>
    IN  IF file_ext = s_pdf \/ file_ext \in {s_docx, s_doc}
        THEN [raw_text |-> text,
              candidate_name |-> extract_name(text),
              candidate_email |-> extract_email(text),
              skills |-> extract_skills(text),
              experience_years |-> extract_experience_years(lex(text)),
              experience_details |-> extract_experience(lex(text)),
              education |-> extract_education(text),
              projects |-> extract_projects(text),
              certifications |-> extract_certifications(text)]
        ELSE [raised |-> "ValueError"]

\* utils.extract_text_from_resume: "" for a file of another type, and for a
\* file that cannot be opened
extract_text_from_resume(file) ==
    IF lower(file.ext) = s_pdf
    THEN (IF file.opens THEN strip(file.text) ELSE << >>)
    ELSE IF lower(file.ext) = s_docx
    THEN (IF file.opens THEN strip(file.text) ELSE << >>)
    ELSE << >>

b_name == <<"J","o","h","n"," ","S","m","i","t","h">>

b_email == <<"E","m","a","i","l",":"," ","j","o","h","n",".","s","m","i","t","h","@","m","a","i","l",".","e","x","a","m","p","l","e",".","c","o","m">>

b_skills == <<"S","k","i","l","l","s",":"," ","P","y","t","h","o","n",","," ","A","W","S">>

b_education == <<"E","d","u","c","a","t","i","o","n","\n","B",".","T","e","c","h"," ","i","n"," ","C","o","m","p","u","t","e","r"," ","S","c","i","e","n","c","e">>

b_experience == <<"E","x","p","e","r","i","e","n","c","e","\n","D","e","v"," ","-"," ","2","0","1","9"," ","-"," ","2","0","2","1">>

b_years == <<"3"," ","y","e","a","r","s"," ","o","f"," ","e","x","p","e","r","i","e","n","c","e">>

b_projects == <<"P","r","o","j","e","c","t","s","\n","R","e","s","u","m","e"," ","r","a","n","k","i","n","g"," ","t","o","o","l"," ","i","n"," ","P","y","t","h","o","n">>

b_certifications == <<"C","e","r","t","i","f","i","c","a","t","i","o","n","s","\n","A","W","S"," ","C","e","r","t","i","f","i","e","d"," ","D","e","v","e","l","o","p","e","r">>

b_note == <<"r","e","f","e","r","e","n","c","e","s"," ","o","n"," ","r","e","q","u","e","s","t">>

BlockPool ==
    {b_name, b_email, b_skills, b_education, b_experience, b_years,
     b_projects, b_certifications, b_note}

\* the blocks, one per line
RECURSIVE join_blocks(_)
join_blocks(blocks) ==
    IF Len(blocks) = 0 THEN << >>
    ELSE IF Len(blocks) = 1 THEN blocks[1]
    ELSE blocks[1] \o <<"\n">> \o join_blocks(Tail(blocks))

ParseTexts == {join_blocks(b) : b \in SeqsUpTo(BlockPool, MaxBlocks)}

FileExts == {s_pdf, <<".","P","D","F">>, s_docx, s_doc, <<".","t","x","t">>, << >>}

ParseCalls ==
    {[ext |-> s_pdf, opens |-> TRUE, text |-> t] : t \in ParseTexts}
    \cup {[ext |-> e, opens |-> o, text |-> t] :
             e \in FileExts, o \in BOOLEAN, t \in {b_name, b_years}}

InitParse ==
    /\ pc = "call"
    /\ op \in {"parse", "extract_text_from_resume"}
    /\ arg \in ParseCalls
    /\ ret = << >>
    /\ simCalls = 0
    /\ self_weights = DefaultWeights
    /\ history = {}
    /\ ServicesIdle

Parse ==
    /\ pc = "call"
    /\ op = "parse"
    /\ ret' = parse(arg)
    /\ pc' = "return"
    /\ UNCHANGED <<op, arg, simCalls, self_weights, history, services>>

ExtractTextFromResume ==
    /\ pc = "call"
    /\ op = "extract_text_from_resume"
    /\ ret' = extract_text_from_resume(arg)
    /\ pc' = "return"
    /\ UNCHANGED <<op, arg, simCalls, self_weights, history, services>>

NextParse ==
    \/ Parse
    \/ ExtractTextFromResume

SpecParse == InitParse /\ [][NextParse]_vars

(***************************************************************************)
(* Properties of calculate_overall_score (checked under SpecOverall).      *)
(***************************************************************************)
Returned(o) == pc = "return" /\ op = o

\* the weights a call aggregates with
UsedWeights ==
    IF Len(arg.custom_weights) > 0 /\ DOMAIN arg.custom_weights[1] # {}
    THEN arg.custom_weights[1] ELSE self_weights

\* five weights, none negative, summing to 1.0
ValidWeights(w) ==
    /\ DOMAIN w = Components
    /\ \A c \in Components : w[c] >= 0
    /\ w.semantic + w.skills + w.experience + w.education + w.projects = 100

InRange(x) == 0 <= x /\ x <= 10000

\* C1: with five non-negative weights summing to 1.0, the overall_score a
\* call returns lies in [0,100], whatever the cosine similarities are.
C1_OverallScoreInRange ==
    (Returned("calculate_overall_score") /\ ValidWeights(UsedWeights))
        => InRange(ret.overall_score)

\* C2: each of the five component scores a call returns lies in [0,100], and
\* the semantic score is the similarity clamped to [0,1], times 100.
C2_ComponentScoresInRange ==
    (Returned("calculate_overall_score") /\ "overall_score" \in DOMAIN ret)
        => /\ ret.semantic_score =
                 100 * (IF arg.similarity < 0 THEN 0
                        ELSE IF arg.similarity > 100 THEN 100
                        ELSE arg.similarity)
           /\ InRange(ret.semantic_score)
           /\ InRange(ret.skills_score)
           /\ InRange(ret.experience_score)
           /\ InRange(ret.education_score)
           /\ InRange(ret.projects_score)

\* C3: is_shortlisted is true exactly when the reported overall_score is at
\* least 70.0; a reported 70.0 is shortlisted.
C3_ShortlistedIffAtLeast70 ==
    (Returned("calculate_overall_score") /\ "overall_score" \in DOMAIN ret)
        => /\ ret.is_shortlisted <=> (ret.overall_score >= 7000)
           /\ ret.explanation.is_shortlisted = ret.is_shortlisted
           /\ ret.explanation.overall_score = ret.overall_score

C3_Witness_Exactly70 ==
    /\ Returned("calculate_overall_score")
    /\ "overall_score" \in DOMAIN ret
    /\ ret.overall_score = 7000
    /\ ret.is_shortlisted

(***************************************************************************)
(* Properties of calculate_skills_score (checked under SpecSkills).        *)
(***************************************************************************)
\* every required skill is, verbatim, one of the resume skills
Superset(resume_skills, required_skills) ==
    \A i \in 1..Len(required_skills) : InList(required_skills[i], resume_skills)

ScoreIs(x, points) == x.n = points * x.d

\* C4 as stated: the score is exactly 100 whenever the resume skills are a
\* superset of the required skills, an empty required list included.
C4_SupersetScores100 ==
    (Returned("calculate_skills_score")
     /\ Superset(arg.resume_skills, arg.required_skills))
        => ScoreIs(ret.score, 100)

\* C4 amended: the score is exactly 100 whenever the required list is not
\* empty and the resume skills are a superset of it.
C4_NonEmptySupersetScores100 ==
    (Returned("calculate_skills_score")
     /\ Len(arg.required_skills) > 0
     /\ Superset(arg.resume_skills, arg.required_skills))
        => ScoreIs(ret.score, 100)

C4_Witness_SupersetOfTwo ==
    /\ Returned("calculate_skills_score")
    /\ arg.required_skills = <<s_aws, s_java>>
    /\ arg.resume_skills = <<s_java, s_aws>>
    /\ ScoreIs(ret.score, 100)

\* a required skill (normalized) is a substring of, or contains, a resume skill
Matches(req_skill, resume_skills) ==
    \E j \in 1..Len(resume_skills) :
        LET res_skill == strip(lower(resume_skills[j]))
        IN  In(req_skill, res_skill) \/ In(res_skill, req_skill)

\* C5: with required skills, a required skill (lower-cased, trimmed) is in
\* matched iff it is a substring of, or contains, some resume skill
\* (normalized alike), else it is in missing; the score is matched/required
\* x 100 (2/3 x 100 and missing = [aws] in the scenario); without required
\* skills the score is 50.0.
C5_SkillsMatchingRule ==
    Returned("calculate_skills_score") =>
        IF Len(arg.required_skills) = 0
        THEN ScoreIs(ret.score, 50)
        ELSE LET n == Len(arg.required_skills)
                 req(i) == strip(lower(arg.required_skills[i]))
                 hit == {i \in 1..n : Matches(req(i), arg.resume_skills)}
             IN  /\ \A i \in 1..n :
                        /\ InList(req(i), ret.explanation.matched) <=> i \in hit
                        /\ InList(req(i), ret.explanation.missing) <=> i \notin hit
                 /\ ret.score.n * n = 100 * Cardinality(hit) * ret.score.d
                 /\ arg = ScenarioSkillsCall =>
                        /\ Round2(ret.score) = 6667
                        /\ ret.explanation.missing = <<s_aws>>

C5_Witness_Scenario ==
    /\ Returned("calculate_skills_score")
    /\ arg = ScenarioSkillsCall
    /\ ret.explanation.matched = <<s_python, s_react>>
    /\ ret.explanation.missing = <<s_aws>>

(***************************************************************************)
(* Properties of calculate_experience_score (checked under SpecExperience).*)
(***************************************************************************)
\* C6: for a fixed required_years the score never decreases when the
\* candidate's years increase.
C6_ExperienceMonotone ==
    Returned("calculate_experience_score") =>
        \A more \in Years :
            more >= arg.resume_years =>
                RatLeq(ret.score,
                       calculate_experience_score(more, arg.required_years).score)

C6_Witness_PartialCredit ==
    /\ Returned("calculate_experience_score")
    /\ arg.resume_years = 1
    /\ arg.required_years = 3
    /\ ~RatLeq(calculate_experience_score(2, 3).score, ret.score)

\* C7: the score is 100 when required_years is 0; for required_years > 0 it
\* is 100 when resume_years >= required_years, else
\* min(100, resume_years / required_years x 100).
C7_ExperienceRule ==
    Returned("calculate_experience_score") =>
        LET a == arg.resume_years
            b == arg.required_years
        IN  IF b = 0 THEN ScoreIs(ret.score, 100)
            ELSE IF a >= b THEN ScoreIs(ret.score, 100)
            ELSE IF a * 100 >= 100 * b THEN ScoreIs(ret.score, 100)
            ELSE ret.score.n * b = a * 100 * ret.score.d

C7_Witness_NoRequirement ==
    /\ Returned("calculate_experience_score")
    /\ arg.required_years = 0
    /\ arg.resume_years = 0
    /\ ScoreIs(ret.score, 100)

(***************************************************************************)
(* Properties of calculate_education_score (checked under SpecEducation).  *)
(***************************************************************************)
\* the level tokens of a job title: those of the first of the keys
\* engineer, scientist, developer, data the lower-cased title contains
LevelsOfTitle(title) ==
    LET t == lower(title)
    IN  IF In(k_engineer, t)
        THEN <<t_bachelor, t_btech, t_be, t_master, t_mtech>>
        ELSE IF In(k_scientist, t) THEN <<t_master, t_mtech, t_phd, t_ph_d>>
        ELSE IF In(k_developer, t) THEN <<t_bachelor, t_btech, t_diploma>>
        ELSE IF In(k_data, t) THEN <<t_bachelor, t_master, t_phd>>
        ELSE <<t_bachelor, t_btech, t_be>>

\* some education entry's degree + details text contains one of the levels
HasLevel(resume_education, levels) ==
    \E i \in 1..Len(resume_education), j \in 1..Len(levels) :
        In(levels[j],
           lower(Get(resume_education[i], "degree", << >>) \o <<" ">>
                 \o Get(resume_education[i], "details", << >>)))

\* C8: the score is 30 iff there is no education entry; with entries it is
\* 100 if one of them contains a level token of the job title and 60
\* otherwise; a title matching no key uses the bachelor-level default.
C8_EducationRule ==
    Returned("calculate_education_score") =>
        /\ ScoreIs(ret.score, 30) <=> Len(arg.resume_education) = 0
        /\ Len(arg.resume_education) > 0 =>
              /\ ret.explanation.required_levels = LevelsOfTitle(arg.job_role)
              /\ IF HasLevel(arg.resume_education, LevelsOfTitle(arg.job_role))
                 THEN ScoreIs(ret.score, 100)
                 ELSE ScoreIs(ret.score, 60)

C8_Witness_DefaultLevels ==
    /\ Returned("calculate_education_score")
    /\ arg.job_role = s_Manager
    /\ arg.resume_education = <<e_bachelor>>
    /\ ret.explanation.required_levels = <<t_bachelor, t_btech, t_be>>
    /\ ScoreIs(ret.score, 100)

\* C9 as stated: for "Data Scientist" and no education entries the score is
\* 30 and the explanation carries the required_levels of the 'scientist' key.
C9_EmptyEducationCarriesLevels ==
    (Returned("calculate_education_score")
     /\ arg.job_role = s_Data_Scientist
     /\ Len(arg.resume_education) = 0)
        => /\ ScoreIs(ret.score, 30)
           /\ "required_levels" \in DOMAIN ret.explanation
           /\ ret.explanation.required_levels = <<t_master, t_mtech, t_phd, t_ph_d>>

\* C9 amended: for "Data Scientist" and no education entries the score is 30
\* and the explanation is the message alone, without required_levels; with
\* at least one entry the required_levels are those of the 'scientist' key,
\* not of the 'data' key.
C9_DataScientistLevels ==
    (Returned("calculate_education_score") /\ arg.job_role = s_Data_Scientist)
        => IF Len(arg.resume_education) = 0
           THEN /\ ScoreIs(ret.score, 30)
                /\ DOMAIN ret.explanation = {"message"}
                /\ ret.explanation.message = "No education information found"
           ELSE ret.explanation.required_levels =
                    <<t_master, t_mtech, t_phd, t_ph_d>>

C9_Witness_DataScientistNoEducation ==
    /\ Returned("calculate_education_score")
    /\ arg.job_role = s_Data_Scientist
    /\ Len(arg.resume_education) = 0
    /\ ScoreIs(ret.score, 30)
    /\ "required_levels" \notin DOMAIN ret.explanation

(***************************************************************************)
(* Properties of calculate_projects_score (checked under SpecProjects).    *)
(***************************************************************************)
PassesFilter(project) ==
    Len(strip(Get(project, "title", << >>) \o <<" ">>
              \o Get(project, "description", << >>))) >= 10

\* C10: without projects, or when no project passes the length filter, the
\* score is 0, the detail is a message that no (valid) projects were found,
\* and no project similarity is computed.
C10_NoProjectsScoreZero ==
    (Returned("calculate_projects_score")
     /\ \A i \in 1..Len(arg.resume_projects) : ~PassesFilter(arg.resume_projects[i]))
        => /\ ScoreIs(ret.score, 0)
           /\ DOMAIN ret.explanation = {"message"}
           /\ ret.explanation.message =
                 (IF Len(arg.resume_projects) = 0 THEN "No projects found"
                  ELSE "No valid projects found")
           /\ simCalls = 0

C10_Witness_NoValidProjects ==
    /\ Returned("calculate_projects_score")
    /\ Len(arg.resume_projects) = 2
    /\ \A i \in 1..2 : ~PassesFilter(arg.resume_projects[i])
    /\ \E i \in 1..2 : arg.resume_projects[i].sim = 100
    /\ ret.explanation.message = "No valid projects found"

(***************************************************************************)
(* Properties of a session of calls (checked under SpecSession).           *)
(***************************************************************************)
\* C11: two calls with identical (profile, job role, weights), and the same
\* similarities from the embedding model, return identical results, whatever
\* calls ran before or between them.
C11_SameInputsSameResult ==
    \A h1 \in history, h2 \in history : h1.arg = h2.arg => h1.ret = h2.ret

\* the same default-weights call has returned again after a call that
\* supplied custom weights
C11_Witness_RepeatedAfterOtherCall ==
    /\ Returned("calculate_overall_score")
    /\ arg.custom_weights = << >>
    /\ [arg |-> arg, ret |-> ret] \in history
    /\ \E h \in history :
          /\ h.arg.custom_weights # << >>
          /\ h.arg.resume_data = arg.resume_data
    /\ Cardinality(history) >= 3

(***************************************************************************)
(* Properties of the reported breakdown (checked under SpecOverall).       *)
(***************************************************************************)
HasResult == Returned("calculate_overall_score") /\ "overall_score" \in DOMAIN ret

Reported(c) == ret.explanation.breakdown[c]

ContributionSum ==
    Reported("semantic").contribution + Reported("skills").contribution
    + Reported("experience").contribution + Reported("education").contribution
    + Reported("projects").contribution

\* C12 as stated: each reported contribution equals reported score times
\* reported weight, and the five reported contributions sum to the reported
\* overall_score.
C12_ContributionsExact ==
    HasResult =>
        /\ \A c \in Components :
              100 * Reported(c).contribution = Reported(c).score * Reported(c).weight
        /\ ContributionSum = ret.overall_score

\* C12 amended: each reported contribution is weight x score rounded on its
\* own, so it is within 0.005 x (1 + |weight|) of reported score x reported
\* weight, and the five reported contributions are within 0.03 of the
\* reported overall_score.
C12_ContributionsUpToRounding ==
    HasResult =>
        /\ \A c \in Components :
              2 * Abs(100 * Reported(c).contribution
                      - Reported(c).score * Reported(c).weight)
                 <= 100 + Abs(Reported(c).weight)
        /\ Abs(ContributionSum - ret.overall_score) <= 3

C12_Witness_RoundedApart ==
    /\ HasResult
    /\ Reported("skills").score = 6667
    /\ Reported("skills").weight = 20
    /\ Reported("skills").contribution = 1333
    /\ ContributionSum # ret.overall_score

(***************************************************************************)
(* Caller-supplied weights.                                                *)
(***************************************************************************)
Supplied == Len(arg.custom_weights) = 1

EmptyMapping == Supplied /\ DOMAIN arg.custom_weights[1] = {}

MissingKey ==
    /\ Supplied
    /\ DOMAIN arg.custom_weights[1] # {}
    /\ ~(Components \subseteq DOMAIN arg.custom_weights[1])

NonPositiveWeight ==
    /\ Supplied
    /\ Components \subseteq DOMAIN arg.custom_weights[1]
    /\ \E c \in Components : arg.custom_weights[1][c] <= 0

Raised(e) == "raised" \in DOMAIN ret /\ ret.raised = e

\* C13 as stated: an empty weight mapping, a mapping missing one of the five
\* component keys, and a mapping with a non-positive weight are rejected with
\* an InvalidWeights error; no score is computed from them.
C13_MalformedWeightsRejected ==
    Returned("calculate_overall_score") =>
        (EmptyMapping \/ MissingKey \/ NonPositiveWeight => Raised("InvalidWeights"))

WeightSum(w) ==
    w["semantic"] + w["skills"] + w["experience"] + w["education"] + w["projects"]

ReportedWeights == [c \in Components |-> Reported(c).weight]

ReportedWeightedSum ==
    Reported("semantic").weight * Reported("semantic").score
    + Reported("skills").weight * Reported("skills").score
    + Reported("experience").weight * Reported("experience").score
    + Reported("education").weight * Reported("education").score
    + Reported("projects").weight * Reported("projects").score

AbsWeightSum ==
    Abs(Reported("semantic").weight) + Abs(Reported("skills").weight)
    + Abs(Reported("experience").weight) + Abs(Reported("education").weight)
    + Abs(Reported("projects").weight)

\* the reported weights are the ones aggregated: overall_score is the reported
\* weights applied to the reported scores, up to the rounding of the scores
AggregatedWithReportedWeights ==
    2 * Abs(100 * ret.overall_score - ReportedWeightedSum) <= 100 + AbsWeightSum

\* the caller's non-empty mapping verbatim, the defaults otherwise
ReportedVerbatimOrDefault ==
    IF Supplied /\ ~EmptyMapping
    THEN \A c \in Components :
            /\ c \in DOMAIN arg.custom_weights[1]
            /\ Reported(c).weight = arg.custom_weights[1][c]
    ELSE ReportedWeights = DefaultWeights

CallerWeightsSumToOne ==
    /\ Components \subseteq DOMAIN arg.custom_weights[1]
    /\ WeightSum(arg.custom_weights[1]) = 100

\* C14 as stated: the reported weights are the caller's verbatim when
\* supplied, the defaults otherwise, they are the weights aggregated, and in
\* every result they sum to 1.0.
C14_ReportedWeightsSumToOne ==
    HasResult =>
        /\ ReportedVerbatimOrDefault
        /\ AggregatedWithReportedWeights
        /\ WeightSum(ReportedWeights) = 100

\* C14 amended: the reported weights are the weights aggregated: the caller's
\* non-empty mapping verbatim, the defaults 0.40/0.30/0.15/0.10/0.05 when the
\* caller passes None or an empty mapping; they sum to 1.0 when the defaults
\* are used or when the caller's own weights sum to 1.0.
C14_ReportedWeightsAreUsedWeights ==
    HasResult =>
        /\ ReportedVerbatimOrDefault
        /\ AggregatedWithReportedWeights
        /\ (~Supplied \/ EmptyMapping \/ CallerWeightsSumToOne)
              => WeightSum(ReportedWeights) = 100

C14_Witness_VerbatimNotSummingToOne ==
    /\ HasResult
    /\ Supplied
    /\ ~EmptyMapping
    /\ ~NonPositiveWeight
    /\ WeightSum(arg.custom_weights[1]) = 170
    /\ WeightSum(ReportedWeights) = 170
    /\ ret.overall_score > 10000

(***************************************************************************)
(* Missing and null optional data (checked under SpecOverallDegraded).     *)
(***************************************************************************)
\* C15 as stated: with valid (default) weights and a working embedding model,
\* calculate_overall_score returns a result, and raises nothing, whichever
\* optional profile or job-role key is absent or None.
C15_NeverRaisesOnMissingData ==
    Returned("calculate_overall_score") =>
        /\ "raised" \notin DOMAIN ret
        /\ "overall_score" \in DOMAIN ret

(***************************************************************************)
(* Recommendations (checked under SpecOverall).                            *)
(***************************************************************************)
MissingSkills == Reported("skills").details.missing

CandidateYears == Get(arg.resume_data, "experience_years", 0)

RequiredYears == Get(arg.job_role, "required_experience", 0)

ExpectedRecommendations ==
    IF ret.overall_score >= ShortlistThreshold
    THEN << <<"Strong candidate! Well-matched for the role.">> >>
    ELSE (IF Len(MissingSkills) > 0
          THEN << <<"Missing key skills: ", Head3(MissingSkills)>> >>
          ELSE << >>)
         \o
         (IF CandidateYears < RequiredYears
          THEN << <<"Need more experience: ", RequiredYears, " years required">> >>
          ELSE << >>)
         \o
         (IF ret.education_score < 10000
          THEN << <<"Consider highlighting relevant education credentials">> >>
          ELSE << >>)

\* C16 as stated: at 70 or more the recommendations are exactly the one
\* positive line; below 70 they are, in this order, a missing-skills line
\* (first 3 missing skills) iff a required skill is missing, an experience
\* line iff candidate years < required years (never when required years is
\* 0), and an education line iff the education requirement is not met.
C16_RecommendationsRule ==
    HasResult => ret.explanation.recommendations = ExpectedRecommendations

(***************************************************************************)
(* Experience years (checked under SpecExperienceYears).                   *)
(***************************************************************************)
\* every explicit mention of the text: the matches of both patterns
AllMentions ==
    findall(1, words_of(arg.text), 1) \o findall(2, words_of(arg.text), 1)

SeqRange(s) == {s[i] : i \in 1..Len(s)}

\* C17 as stated: when the text has at least one match of either pattern,
\* _extract_experience_years returns the maximum N over all matches of both.
C17_MaxOverAllMatches ==
    (Returned("_extract_experience_years") /\ Len(AllMentions) > 0)
        => ret = SetMax(SeqRange(AllMentions))

\* C18 as stated: without an explicit mention experience_years is the number
\* of extracted experience entries; with an explicit mention the fallback is
\* not used (the result comes from the mentions); and it is never negative.
C18_FallbackOnlyWithoutMention ==
    Returned("_extract_experience_years") =>
        /\ Len(AllMentions) = 0 => ret = Len(extract_experience(arg.text))
        /\ Len(AllMentions) > 0 => ret = explicit_years(words_of(arg.text))
        /\ ret >= 0

(***************************************************************************)
(* Text extraction (checked under SpecExtract).                            *)
(***************************************************************************)
Extracted == pc = "return" /\ op \in ExtractOps

ReadableUnits == SelectSeq(arg.units, LAMBDA u : ~u.fails)

\* C19 as stated: a unit whose extraction fails is skipped alone: the text of
\* every other unit, also of the units after the failing one, appears in the
\* extracted text.
C19_FailingUnitSkippedAlone ==
    Extracted =>
        \A i \in 1..Len(arg.units) :
            ~arg.units[i].fails => In(arg.units[i].text, ret)

\* the units' texts with a line break between every two consecutive ones
RECURSIVE JoinLines(_)
JoinLines(units) ==
    IF Len(units) = 0 THEN << >>
    ELSE IF Len(units) = 1 THEN units[1].text
    ELSE units[1].text \o <<"\n">> \o JoinLines(Tail(units))

\* C20 as stated: for a document whose units can all be read, the text
\* extracted by _extract_from_pdf / _extract_from_docx is all units in
\* document order with a line break between every two consecutive units (a
\* final line break after the last unit is allowed).
C20_LineBreakBetweenUnits ==
    (/\ pc = "return"
     /\ op \in {"_extract_from_pdf", "_extract_from_docx"}
     /\ \A i \in 1..Len(arg.units) : ~arg.units[i].fails)
        => \/ ret = JoinLines(arg.units)
           \/ ret = JoinLines(arg.units) \o <<"\n">>

(***************************************************************************)
(* Parsing (checked under SpecParse).                                      *)
(***************************************************************************)
\* the extension is neither .pdf nor .docx (so also .doc)
Unsupported(file) == lower(file.ext) \notin {s_pdf, s_docx}

Outcome(e) == "error" \in DOMAIN ret /\ ret.error = e

\* C21 as stated: parse raises nothing; for an unrecognized extension and for
\* .doc it ends in UnsupportedFormat, for a .pdf/.docx that cannot be opened
\* in CorruptDocument, and in each of these cases the caller gets empty text
\* (also from the legacy extract_text_from_resume).
C21_UnhandledDocumentOutcome ==
    /\ Returned("parse") =>
          /\ "raised" \notin DOMAIN ret
          /\ Unsupported(arg) => (Outcome("UnsupportedFormat") /\ ret.raw_text = << >>)
          /\ (~Unsupported(arg) /\ ~arg.opens)
                => (Outcome("CorruptDocument") /\ ret.raw_text = << >>)
    /\ Returned("extract_text_from_resume") =>
          ((Unsupported(arg) \/ ~arg.opens) => ret = << >>)

ProfileFields ==
    {"raw_text", "candidate_name", "candidate_email", "skills",
     "experience_years", "experience_details", "education", "projects",
     "certifications"}

\* parse got as far as the extracted text
Extractable == Returned("parse") /\ lower(arg.ext) \in {s_pdf, s_docx, s_doc}

Mentions(word) == In(word, lower(ret.raw_text))

NoNameLine ==
    \A k \in 1..Len(split_lines(ret.raw_text)) :
        ~name_like(strip(split_lines(ret.raw_text)[k]))

\* C22: for every extracted text parse returns a profile with exactly the
\* nine fields; a field whose section the text does not have is None (name,
\* email), an empty list, or 0 (experience_years); for the empty text every
\* field is.
C22_HeuristicMissesNeverAbort ==
    Extractable =>
        /\ DOMAIN ret = ProfileFields
        /\ ret.experience_years >= 0
        /\ NoNameLine => ret.candidate_name = << >>
        /\ ~Mentions(<<"@">>) => ret.candidate_email = << >>
        /\ (\A k \in 1..Len(skills_keywords) : ~Mentions(skills_keywords[k]))
              => ret.skills = {}
        /\ (\A k \in 1..Len(education_headers) : ~Mentions(education_headers[k]))
              => ret.education = << >>
        /\ ~Mentions(project_headers[2]) => ret.projects = << >>
        /\ (\A k \in 1..Len(certification_headers) : ~Mentions(certification_headers[k]))
              => ret.certifications = << >>
        /\ ~Mentions(<<"e","x","p","e","r","i","e","n","c","e">>)
              => (ret.experience_details = << >> /\ ret.experience_years = 0)
        /\ ret.raw_text = << >>
              => /\ ret.candidate_name = << >> /\ ret.candidate_email = << >>
                 /\ ret.skills = {} /\ ret.experience_years = 0
                 /\ ret.experience_details = << >> /\ ret.education = << >>
                 /\ ret.projects = << >> /\ ret.certifications = << >>

C22_Witness_OnlyEducationFound ==
    /\ Extractable
    /\ arg.opens
    /\ Len(ret.education) > 0
    /\ ret.candidate_name = << >>
    /\ ret.candidate_email = << >>
    /\ ret.skills = {}
    /\ ret.projects = << >>
    /\ ret.certifications = << >>
    /\ ret.experience_years = 0

(***************************************************************************)
(* Relevant and top projects (checked under SpecRankedProjects).           *)
(***************************************************************************)
\* the relevances of the scored projects of the call above the threshold, in
\* input order
RelevancesOf(projects) ==
    LET scored == SelectSeq(projects, PassesFilter)
        above == SelectSeq(scored, LAMBDA q : q.sim > RelevanceThreshold)
    IN  [k \in 1..Len(above) |-> above[k].sim * 100]

\* the n largest values of a sequence, largest first
RECURSIVE Largest(_, _)
Largest(q, n) ==
    IF n = 0 \/ Len(q) = 0 THEN << >>
    ELSE LET i == CHOOSE j \in 1..Len(q) : \A k \in 1..Len(q) : q[j] >= q[k]
         IN  <<q[i]>> \o Largest(SubSeq(q, 1, i - 1) \o SubSeq(q, i + 1, Len(q)), n - 1)

TopRelevances ==
    [k \in 1..Len(ret.explanation.top_projects) |->
        ret.explanation.top_projects[k].relevance]

\* C23 as stated: relevant_projects counts exactly the scored projects above
\* 0.3, and top_projects holds the (up to) 3 of them with the highest
\* similarity: as multisets, its relevances are the 3 largest.
C23_TopProjectsAreMostRelevant ==
    (Returned("calculate_projects_score") /\ "top_projects" \in DOMAIN ret.explanation) =>
        /\ ret.explanation.relevant_projects = Len(RelevancesOf(arg.resume_projects))
        /\ Largest(TopRelevances, 3) = Largest(RelevancesOf(arg.resume_projects), 3)

(***************************************************************************)
(* The skills detail object (checked under SpecSkills).                    *)
(***************************************************************************)
SkillsDetail == ret.explanation

RequiredNormalized == Normalize(arg.required_skills)

\* a skill of the resume, as given or normalized
IsCandidateSkill(x) ==
    InList(x, arg.resume_skills) \/ InList(x, Normalize(arg.resume_skills))

\* x matches some required skill, in either direction
MatchesRequired(x) ==
    \E k \in 1..Len(RequiredNormalized) :
        In(RequiredNormalized[k], strip(lower(x))) \/ In(strip(lower(x)), RequiredNormalized[k])

\* C24 as stated: every skills detail, also for an empty required_skills list,
\* holds matched, missing, the "m/n" match_ratio, and an extra list of at most
\* 5 entries, each a candidate skill that matched no required skill.
C24_SkillsDetailComplete ==
    Returned("calculate_skills_score") =>
        /\ {"matched", "missing", "extra", "match_ratio"} \subseteq DOMAIN SkillsDetail
        /\ SkillsDetail.match_ratio
              = <<Len(SkillsDetail.matched), "/", Len(arg.required_skills)>>
        /\ Len(SkillsDetail.extra) <= 5
        /\ \A k \in 1..Len(SkillsDetail.extra) :
              /\ IsCandidateSkill(SkillsDetail.extra[k])
              /\ ~MatchesRequired(SkillsDetail.extra[k])

\* C26: for a non-empty required_skills list, matched and missing are the two
\* parts of the (normalized) required list, each in input order and with its
\* repetitions, no skill is in both, their lengths add up to the number of
\* required skills, and match_ratio is len(matched)/len(required).
C26_MatchedMissingPartition ==
    (Returned("calculate_skills_score") /\ Len(arg.required_skills) > 0) =>
        /\ SelectSeq(RequiredNormalized, LAMBDA r : InList(r, SkillsDetail.matched))
              = SkillsDetail.matched
        /\ SelectSeq(RequiredNormalized, LAMBDA r : InList(r, SkillsDetail.missing))
              = SkillsDetail.missing
        /\ \A k \in 1..Len(RequiredNormalized) :
              InList(RequiredNormalized[k], SkillsDetail.matched)
                 # InList(RequiredNormalized[k], SkillsDetail.missing)
        /\ Len(SkillsDetail.matched) + Len(SkillsDetail.missing) = Len(arg.required_skills)
        /\ SkillsDetail.match_ratio
              = <<Len(SkillsDetail.matched), "/", Len(arg.required_skills)>>

C26_Witness_OneMatchedOneMissing ==
    /\ Returned("calculate_skills_score")
    /\ Len(arg.required_skills) = 2
    /\ Len(SkillsDetail.matched) = 1
    /\ Len(SkillsDetail.missing) = 1
    /\ SkillsDetail.match_ratio = <<1, "/", 2>>

(***************************************************************************)
(* Concurrent callers: several threads inside calculate_overall_score of   *)
(* the one module-level scorer, each with a profile and a role of its own. *)
(***************************************************************************)
NumThreads == 2

Threads == 1..NumThreads

InitConcurrent ==
    /\ pc = "idle"
    /\ op = "calculate_overall_score"
    /\ arg = << >>
    /\ ret = << >>
    /\ simCalls = 0
    /\ self_weights = DefaultWeights
    /\ history = {}
    /\ threads \in [Threads -> {[pc |-> "call", arg |-> call, scorer_weights |-> << >>, ret |-> << >>] : call \in SessionCalls}]
    /\ processing_state = [total_files |-> 0, processed_files |-> 0, current_status |-> "idle"]
    /\ uploads = [path \in {} |-> << >>]
    /\ requests = << >>
    /\ db = [screening_results |-> << >>, resumes |-> << >>, analyses |-> << >>, email_logs |-> << >>]
    /\ smtp_configured = TRUE

\* thread t evaluates `weights = custom_weights or self.weights`
EnterOverallScore(t) ==
    /\ threads[t].pc = "call"
    /\ threads' = [threads EXCEPT ![t].pc = "scoring", ![t].scorer_weights = self_weights]
    /\ self_weights' = weights_after_call(threads[t].arg.custom_weights, self_weights)
    /\ UNCHANGED <<pc, op, arg, ret, simCalls, history, processing_state, uploads, requests, db, smtp_configured>>

\* thread t computes the five scores and returns the result
FinishOverallScore(t) ==
    /\ threads[t].pc = "scoring"
    /\ LET call == threads[t].arg
       IN  /\ threads' = [threads EXCEPT ![t].pc = "return",
                            ![t].ret = calculate_overall_score(call.resume_data, call.job_role, call.custom_weights, call.similarity, threads[t].scorer_weights)]
           /\ simCalls' = simCalls + 1 + projects_similarity_calls(Get(call.resume_data, "projects", << >>))
    /\ UNCHANGED <<pc, op, arg, ret, self_weights, history, processing_state, uploads, requests, db, smtp_configured>>

NextConcurrent ==
    \/ \E t \in Threads : EnterOverallScore(t)
    \/ \E t \in Threads : FinishOverallScore(t)

SpecConcurrent == InitConcurrent /\ [][NextConcurrent]_vars

\* the result of the call when it is the only one the scorer ever serves
RunAlone(call) ==
    calculate_overall_score(call.resume_data, call.job_role, call.custom_weights, call.similarity, DefaultWeights)

\* C25: a scoring call writes no shared state (the scorer's default weights
\* stay as constructed and no step changes a caller's weights, profile or
\* role), so under every interleaving each concurrent call returns what it
\* returns when run alone.
C25_ConcurrentCallsIsolated ==
    /\ [](/\ self_weights = DefaultWeights
          /\ \A t \in Threads :
                threads[t].pc = "return" => threads[t].ret = RunAlone(threads[t].arg))
    /\ [][\A t \in Threads : threads'[t].arg = threads[t].arg]_vars

C25_Witness_InterleavedCallers ==
    /\ threads # << >>
    /\ threads[1].pc = "return"
    /\ threads[1].arg.custom_weights # << >>
    /\ threads[2].pc = "scoring"
    /\ threads[2].arg.custom_weights = << >>
    /\ threads[2].arg.resume_data # threads[1].arg.resume_data

(***************************************************************************)
(* The legacy batch uploader (src/ATS_resume_analyzer/main.py): POST       *)
(* /upload saves every file under uploads/<filename>, scores the files of  *)
(* a batch as concurrent tasks, deletes the saved files and answers.  The  *)
(* handlers are coroutines of one event loop: a step runs from one await   *)
(* to the next.                                                            *)
(***************************************************************************)
MaxBatchFiles == 2

NumUploads == 2

BatchSize == 50

ShortlistScore == 80

\* an uploaded file: what the utilities extract and compute from its bytes
lf_alice == [filename |-> "a.pdf", readable |-> TRUE, email |-> <<"alice@x.org">>, semantic_score |-> 90, ml_fit |-> 1, missing_skills |-> "[]"]

lf_bob == [filename |-> "b.pdf", readable |-> TRUE, email |-> << >>, semantic_score |-> 60, ml_fit |-> 1, missing_skills |-> "[\"aws\"]"]

lf_scan == [filename |-> "a.pdf", readable |-> FALSE, email |-> << >>, semantic_score |-> 0, ml_fit |-> 0, missing_skills |-> "[]"]

LegacyFiles == {lf_alice, lf_bob, lf_scan}

UploadedLists == {fs \in SeqsUpTo(LegacyFiles, MaxBatchFiles) : Len(fs) > 0}

\* os.path.join("uploads", file.filename)
upload_path(filename) == <<"uploads", filename>>

\* the result appended when no text is extracted or an exception is caught
ErrorResult(filename) ==
    [filename |-> filename, email |-> << >>, semantic_score |-> 0, ml_fit |-> 0,
     final_status |-> "Error", email_sent |-> 0, email_status |-> "Failed",
     missing_skills |-> "[]"]

final_status_of(semantic_score, ml_fit) ==
    IF semantic_score >= ShortlistScore /\ ml_fit = 1 THEN "Shortlisted" ELSE "Rejected"

\* the result stored for a resume whose text was extracted
ScoredResult(filename, content, email_sent, email_status) ==
    [filename |-> filename, email |-> content.email,
     semantic_score |-> content.semantic_score, ml_fit |-> content.ml_fit,
     final_status |-> final_status_of(content.semantic_score, content.ml_fit),
     email_sent |-> IF email_sent THEN 1 ELSE 0, email_status |-> email_status,
     missing_skills |-> content.missing_skills, job_description |-> "jd"]

\* batch_results after `batch_results.append(result)` and the INSERT: a failed
\* INSERT is caught by the handler of the whole body, which appends an Error
store_result(batch_results, result, db_ok) ==
    IF db_ok THEN Append(batch_results, result)
    ELSE Append(Append(batch_results, result), ErrorResult(result.filename))

\* list.sort(key=semantic_score, reverse=True): stable, descending
RECURSIVE insert_desc(_, _)
insert_desc(sorted, x) ==
    IF sorted = << >> THEN <<x>>
    ELSE IF Head(sorted).semantic_score >= x.semantic_score
         THEN <<Head(sorted)>> \o insert_desc(Tail(sorted), x)
         ELSE <<x>> \o sorted

RECURSIVE sort_desc(_)
sort_desc(results) ==
    IF results = << >> THEN << >>
    ELSE insert_desc(sort_desc(SubSeq(results, 1, Len(results) - 1)), results[Len(results)])

\* for idx, result in enumerate(all_results, 1): result["ranking"] = idx
with_ranking(results) ==
    [i \in 1..Len(results) |->
        [k \in DOMAIN results[i] \cup {"ranking"} |->
            IF k = "ranking" THEN i ELSE results[i][k]]]

\* the uploads directory after os.remove of every saved path that exists
remove_all(dir, file_paths) ==
    [path \in DOMAIN dir \ {file_paths[i][1] : i \in 1..Len(file_paths)} |-> dir[path]]

\* the tasks of the batch starting after file i
batch_tasks(file_paths, i) ==
    [k \in 1..(IF Len(file_paths) - i < BatchSize THEN Len(file_paths) - i ELSE BatchSize) |->
        [pc |-> "pending", file_path |-> file_paths[i + k][1], filename |-> file_paths[i + k][2], content |-> << >>]]

NewRequest(files) ==
    [pc |-> "received", files |-> files, file_paths |-> << >>, i |-> 0, tasks |-> << >>,
     batch_results |-> << >>, all_results |-> << >>, response |-> << >>]

\* a first upload of up to MaxBatchFiles files, the others of one file each
InitLegacy(n) ==
    /\ pc = "idle"
    /\ op = "none"
    /\ arg = << >>
    /\ ret = << >>
    /\ simCalls = 0
    /\ self_weights = DefaultWeights
    /\ history = {}
    /\ threads = << >>
    /\ processing_state = [total_files |-> 0, processed_files |-> 0, current_status |-> "idle"]
    /\ uploads = [path \in {} |-> << >>]
    /\ requests \in [1..n -> {NewRequest(fs) : fs \in UploadedLists}]
    /\ \A r \in 2..n : Len(requests[r].files) = 1
    /\ db = [screening_results |-> << >>, resumes |-> << >>, analyses |-> << >>, email_logs |-> << >>]
    /\ smtp_configured \in BOOLEAN

InitBatch == InitLegacy(1)

InitUploads == InitLegacy(NumUploads)

LegacyFrame == UNCHANGED <<pc, op, arg, simCalls, self_weights, history, threads, smtp_configured>>

\* upload_resumes passes its checks and process_resumes_batch runs up to the
\* first await
StartUpload(r) ==
    /\ requests[r].pc = "received"
    /\ processing_state' = [total_files |-> Len(requests[r].files), processed_files |-> 0, current_status |-> "processing"]
    /\ requests' = [requests EXCEPT ![r].pc = "saving"]
    /\ UNCHANGED <<ret, uploads, db>>
    /\ LegacyFrame

\* the next file is written to uploads/<filename>; after the last one the
\* first batch's tasks are created and gathered
SaveFile(r) ==
    /\ requests[r].pc = "saving"
    /\ LET req == requests[r]
           file == req.files[Len(req.file_paths) + 1]
           file_path == upload_path(file.filename)
           file_paths == Append(req.file_paths, <<file_path, file.filename>>)
       IN  /\ uploads' = [path \in DOMAIN uploads \cup {file_path} |->
                             IF path = file_path THEN file ELSE uploads[path]]
           /\ requests' = [requests EXCEPT ![r] =
                  IF Len(file_paths) < Len(req.files)
                  THEN [req EXCEPT !.file_paths = file_paths]
                  ELSE [req EXCEPT !.file_paths = file_paths, !.pc = "gathering",
                                   !.i = 0, !.tasks = batch_tasks(file_paths, 0),
                                   !.batch_results = << >>]]
    /\ UNCHANGED <<ret, processing_state, db>>
    /\ LegacyFrame

\* the task stores its result and inserts the row
FinishTask(r, k, content, email_sent, email_status, db_ok) ==
    LET req == requests[r]
        result == ScoredResult(req.tasks[k].filename, content, email_sent, email_status)
    IN  /\ requests' = [requests EXCEPT ![r].tasks[k].pc = "done",
                           ![r].batch_results = store_result(req.batch_results, result, db_ok)]
        /\ db' = IF db_ok
                 THEN [db EXCEPT !.screening_results = Append(@, result)]
                 ELSE db

\* process_single_resume from its start to `await send_email_async` (or to its
\* end when nothing is awaited); asyncio starts the tasks of a gather in order
StartTask(r, k) ==
    /\ requests[r].pc = "gathering"
    /\ k \in DOMAIN requests[r].tasks
    /\ requests[r].tasks[k].pc = "pending"
    /\ \A j \in 1..(k - 1) : requests[r].tasks[j].pc # "pending"
    /\ LET task == requests[r].tasks[k]
           exists == task.file_path \in DOMAIN uploads
       IN  IF ~exists \/ ~uploads[task.file_path].readable
           THEN /\ requests' = [requests EXCEPT ![r].tasks[k].pc = "done",
                                   ![r].batch_results = Append(@, ErrorResult(task.filename))]
                /\ db' = db
           ELSE LET content == uploads[task.file_path]
                IN  IF content.email = << >>
                    THEN \E db_ok \in BOOLEAN :
                            FinishTask(r, k, content, FALSE, "No Email Found", db_ok)
                    ELSE IF ~smtp_configured
                    THEN \E db_ok \in BOOLEAN :
                            FinishTask(r, k, content, FALSE, "Failed", db_ok)
                    ELSE /\ requests' = [requests EXCEPT ![r].tasks[k].pc = "sending",
                                            ![r].tasks[k].content = content]
                         /\ db' = db
    /\ UNCHANGED <<ret, processing_state, uploads>>
    /\ LegacyFrame

\* aiosmtplib.send returns or raises; the task runs to its end
EmailDone(r, k) ==
    /\ requests[r].pc = "gathering"
    /\ k \in DOMAIN requests[r].tasks
    /\ requests[r].tasks[k].pc = "sending"
    /\ \E email_sent \in BOOLEAN, db_ok \in BOOLEAN :
          FinishTask(r, k, requests[r].tasks[k].content, email_sent,
                     IF email_sent THEN "Sent Automatically" ELSE "Failed", db_ok)
    /\ UNCHANGED <<ret, processing_state, uploads>>
    /\ LegacyFrame

\* asyncio.gather returns: the batch is counted; after the last batch the
\* saved files are removed, the status set, the results sorted and ranked
GatherDone(r) ==
    /\ requests[r].pc = "gathering"
    /\ \A k \in DOMAIN requests[r].tasks : requests[r].tasks[k].pc = "done"
    /\ LET req == requests[r]
           all_results == req.all_results \o req.batch_results
           i == req.i + BatchSize
           ranked == with_ranking(sort_desc(all_results))
       IN  IF i < Len(req.files)
           THEN /\ processing_state' = [processing_state EXCEPT !.processed_files = Len(all_results)]
                /\ requests' = [requests EXCEPT ![r].all_results = all_results, ![r].i = i,
                                   ![r].tasks = batch_tasks(req.file_paths, i),
                                   ![r].batch_results = << >>]
                /\ uploads' = uploads
           ELSE /\ processing_state' = [processing_state EXCEPT !.processed_files = Len(all_results), !.current_status = "completed"]
                /\ uploads' = remove_all(uploads, req.file_paths)
                /\ requests' = [requests EXCEPT ![r].all_results = ranked, ![r].pc = "responded",
                                   ![r].tasks = << >>, ![r].batch_results = << >>,
                                   ![r].response = [status |-> "success", total_files |-> Len(req.files),
                                                    processed |-> Len(ranked), results |-> ranked]]
    /\ UNCHANGED <<ret, db>>
    /\ LegacyFrame

\* GET /progress
GetProgress ==
    /\ ret' = processing_state
    /\ UNCHANGED <<processing_state, uploads, requests, db>>
    /\ LegacyFrame

NextLegacy ==
    \/ \E r \in DOMAIN requests : StartUpload(r)
    \/ \E r \in DOMAIN requests : SaveFile(r)
    \/ \E r \in DOMAIN requests : \E k \in 1..MaxBatchFiles : StartTask(r, k)
    \/ \E r \in DOMAIN requests : \E k \in 1..MaxBatchFiles : EmailDone(r, k)
    \/ \E r \in DOMAIN requests : GatherDone(r)
    \/ GetProgress

SpecBatch == InitBatch /\ [][NextLegacy]_vars

SpecUploads == InitUploads /\ [][NextLegacy]_vars

(***************************************************************************)
(* Properties of the legacy batch uploader.                                *)
(***************************************************************************)
Responded(r) == requests[r].pc = "responded"

\* how many entries of a sequence of records carry the filename
CountNamed(records, filename) ==
    Cardinality({i \in 1..Len(records) : records[i].filename = filename})

OneResultPerFile(r) ==
    LET results == requests[r].response.results
        files == requests[r].files
    IN  /\ Len(results) = Len(files)
        /\ \A k \in 1..Len(files) :
              CountNamed(results, files[k].filename) = CountNamed(files, files[k].filename)

RankedByScore(results) ==
    /\ \A i \in 1..Len(results) : results[i].ranking = i
    /\ \A i \in 1..(Len(results) - 1) :
          results[i].semantic_score >= results[i + 1].semantic_score

\* C27 as stated: process_resumes_batch returns exactly one result per
\* uploaded file, also when extraction, email sending or the database insert
\* fails; so processed_files equals total_files once current_status is
\* "completed", and the rankings are 1..n in non-increasing score order.
C27_OneResultPerUploadedFile ==
    \A r \in DOMAIN requests :
        Responded(r) =>
            /\ OneResultPerFile(r)
            /\ processing_state.current_status = "completed"
                  => processing_state.processed_files = processing_state.total_files
            /\ RankedByScore(requests[r].response.results)

InFlight(r) == requests[r].pc \in {"saving", "gathering"}

\* every file the upload has saved is still in uploads/ with bytes this upload wrote
SavedFilesIntact(r) ==
    \A k \in 1..Len(requests[r].file_paths) :
        LET file_path == requests[r].file_paths[k][1]
        IN  /\ file_path \in DOMAIN uploads
            /\ \E j \in 1..Len(requests[r].file_paths) :
                  /\ requests[r].file_paths[j][1] = file_path
                  /\ uploads[file_path] = requests[r].files[j]

\* C30 as stated: under any interleaving of uploads, processed_files never
\* exceeds total_files, current_status is "completed" only when no upload is
\* still processing, and no upload deletes or overwrites the saved file of
\* another upload in flight.
C30_ProgressConsistentUnderInterleaving ==
    /\ processing_state.processed_files <= processing_state.total_files
    /\ processing_state.current_status = "completed"
          => \A r \in DOMAIN requests : ~InFlight(r)
    /\ \A r \in DOMAIN requests : InFlight(r) => SavedFilesIntact(r)

(***************************************************************************)
(* POST /api/analyze/bulk (src/main.py): every file is validated, saved,   *)
(* parsed, stored, scored and stored again inside one try; the handler     *)
(* never awaits, so a request is one step.                                 *)
(***************************************************************************)
MaxBulkFiles == 2

s_txt == <<".","t","x","t">>

\* the step of a file's processing that raises, if any
BulkFaults == {"none", "save", "resume_commit", "scoring", "analysis_commit"}

BulkDocuments ==
    {[filename |-> "john.pdf", ext |-> s_pdf, opens |-> TRUE, text |-> join_blocks(<<b_name, b_email, b_skills>>), similarity |-> 100],
     [filename |-> "anon.docx", ext |-> s_docx, opens |-> TRUE, text |-> b_skills, similarity |-> 100],
     [filename |-> "low.pdf", ext |-> s_pdf, opens |-> TRUE, text |-> join_blocks(<<b_name, b_email>>), similarity |-> 10],
     [filename |-> "broken.pdf", ext |-> s_pdf, opens |-> FALSE, text |-> join_blocks(<<b_name, b_email, b_skills>>), similarity |-> 100],
     [filename |-> "notes.txt", ext |-> s_txt, opens |-> TRUE, text |-> b_name, similarity |-> 100]}

BulkFiles ==
    {f \in {[filename |-> d.filename, ext |-> d.ext, opens |-> d.opens, text |-> d.text, similarity |-> d.similarity, fault |-> x] :
                d \in BulkDocuments, x \in BulkFaults} :
        f.ext = s_txt => f.fault = "none"}

\* the job_roles table: one role, with id 1
JobRoles ==
    <<[id |-> 1, title |-> s_Data_Scientist, description |-> s_description,
       required_skills |-> <<s_python, s_aws>>, required_experience |-> 0]>>

BulkCalls ==
    {[files |-> fs, job_role_id |-> 1] : fs \in SeqsUpTo(BulkFiles, MaxBulkFiles)}
    \cup {[files |-> fs, job_role_id |-> id] : fs \in SeqsUpTo(BulkFiles, 1), id \in {0, 7}}

\* list(set(found_skills)): the elements in some order
RECURSIVE AsList(_)
AsList(S) ==
    IF S = {} THEN << >>
    ELSE LET x == CHOOSE y \in S : TRUE IN <<x>> \o AsList(S \ {x})

\* parsed_data as the scorer reads it; the embedding similarity of the text
\* and of each project is an input of the file
scorer_input(parsed_data, file) ==
    [raw_text |-> parsed_data.raw_text,
     skills |-> AsList(parsed_data.skills),
     experience_years |-> parsed_data.experience_years,
     education |-> parsed_data.education,
     projects |-> [k \in 1..Len(parsed_data.projects) |->
                     [title |-> parsed_data.projects[k].title,
                      description |-> parsed_data.projects[k].description,
                      sim |-> file.similarity]]]

job_role_data_of(job_role) ==
    [title |-> job_role.title, description |-> job_role.description,
     required_skills |-> job_role.required_skills,
     required_experience |-> job_role.required_experience]

error_entry(file, message) ==
    [filename |-> file.filename, status |-> "error", message |-> message]

supported_extension(file_ext) == file_ext \in {s_pdf, s_docx, s_doc}

\* the rest of the try once the resume row is stored and the score computed
bulk_scored(stored, file, job_role, db_resume, scoring_result) ==
    IF file.fault = "scoring"
    THEN [stored EXCEPT !.results = Append(@, error_entry(file, "RuntimeError"))]
    ELSE IF "raised" \in DOMAIN scoring_result
    THEN [stored EXCEPT !.results = Append(@, error_entry(file, scoring_result.raised))]
    ELSE IF file.fault = "analysis_commit"
    THEN [stored EXCEPT !.results = Append(@, error_entry(file, "OperationalError"))]
    ELSE LET db_analysis == [id |-> Len(stored.analyses) + 1, resume_id |-> db_resume.id,
                             job_role_id |-> job_role.id,
                             overall_score |-> scoring_result.overall_score,
                             is_shortlisted |-> scoring_result.is_shortlisted]
             result == [filename |-> file.filename, status |-> "success",
                        analysis_id |-> db_analysis.id,
                        candidate_name |-> db_resume.candidate_name,
                        candidate_email |-> db_resume.candidate_email,
                        overall_score |-> scoring_result.overall_score,
                        is_shortlisted |-> scoring_result.is_shortlisted]
         IN  [stored EXCEPT
                 !.analyses = Append(@, db_analysis),
                 !.results = Append(@, result),
                 !.shortlisted_candidates =
                     IF scoring_result.is_shortlisted /\ db_resume.candidate_email # << >>
                     THEN Append(@, [email |-> db_resume.candidate_email[1],
                                     name |-> IF db_resume.candidate_name # << >>
                                              THEN db_resume.candidate_name[1]
                                              ELSE <<"C","a","n","d","i","d","a","t","e">>,
                                     score |-> scoring_result.overall_score,
                                     analysis_id |-> db_analysis.id])
                     ELSE @]

\* the rest of the try once the file is saved and parsed
bulk_parsed(saved, file, job_role, scorer_weights, parsed_data) ==
    IF "raised" \in DOMAIN parsed_data
    THEN [saved EXCEPT !.results = Append(@, error_entry(file, parsed_data.raised))]
    ELSE IF file.fault = "resume_commit"
    THEN [saved EXCEPT !.results = Append(@, error_entry(file, "OperationalError"))]
    ELSE LET db_resume == [id |-> Len(saved.resumes) + 1, filename |-> file.filename,
                           candidate_name |-> parsed_data.candidate_name,
                           candidate_email |-> parsed_data.candidate_email]
             stored == [saved EXCEPT !.resumes = Append(@, db_resume)]
         IN  CHOOSE out \in {bulk_scored(stored, file, job_role, db_resume, scoring_result) :
                               scoring_result \in {calculate_overall_score(resume_data, job_role_data, << >>, file.similarity, scorer_weights) :
                                                      resume_data \in {scorer_input(parsed_data, file)},
                                                      job_role_data \in {job_role_data_of(job_role)}}} : TRUE

\* the body of `for file in files`: st holds results, shortlisted_candidates,
\* the saved files and the tables
bulk_step(st, file, job_role, scorer_weights) ==
    IF ~supported_extension(lower(file.ext))
    THEN [st EXCEPT !.results = Append(@, error_entry(file, "Unsupported file format"))]
    ELSE IF file.fault = "save"
    THEN [st EXCEPT !.results = Append(@, error_entry(file, "OSError"))]
    ELSE CHOOSE out \in {bulk_parsed([st EXCEPT !.saved = Append(@, file.filename)], file, job_role, scorer_weights, parsed_data) :
                           parsed_data \in {parse(file)}} : TRUE

RECURSIVE bulk_loop(_, _, _, _, _)
bulk_loop(st, files, i, job_role, scorer_weights) ==
    IF i > Len(files) THEN st
    ELSE CHOOSE out \in {bulk_loop(next, files, i + 1, job_role, scorer_weights) :
                           next \in {bulk_step(st, files[i], job_role, scorer_weights)}} : TRUE

\* the handler: the state after it, with the response or the HTTP error in .ret
analyze_resumes_bulk(files, job_role_id, tables, scorer_weights) ==
    LET st0 == [results |-> << >>, shortlisted_candidates |-> << >>, saved |-> << >>,
                resumes |-> tables.resumes, analyses |-> tables.analyses, ret |-> << >>]
        found == {k \in 1..Len(JobRoles) : JobRoles[k].id = job_role_id}
    IN  IF job_role_id = 0 THEN [st0 EXCEPT !.ret = [raised |-> "HTTPException", status_code |-> 400]]
        ELSE IF Len(files) = 0 THEN [st0 EXCEPT !.ret = [raised |-> "HTTPException", status_code |-> 400]]
        ELSE IF found = {} THEN [st0 EXCEPT !.ret = [raised |-> "HTTPException", status_code |-> 404]]
        ELSE CHOOSE out \in {[st EXCEPT !.ret =
                                  [total_processed |-> Len(st.results),
                                   successful |-> Len(SelectSeq(st.results, LAMBDA r : r.status = "success")),
                                   shortlisted_count |-> Len(st.shortlisted_candidates),
                                   results |-> st.results,
                                   shortlisted_candidates |-> st.shortlisted_candidates]] :
                                 st \in {bulk_loop(st0, files, 1, JobRoles[CHOOSE k \in found : TRUE], scorer_weights)}} : TRUE

InitBulk ==
    /\ pc = "call"
    /\ op = "analyze_resumes_bulk"
    /\ arg \in BulkCalls
    /\ ret = << >>
    /\ simCalls = 0
    /\ self_weights = DefaultWeights
    /\ history = {}
    /\ ServicesIdle

AnalyzeResumesBulk ==
    /\ pc = "call"
    /\ op = "analyze_resumes_bulk"
    /\ \E st \in {analyze_resumes_bulk(arg.files, arg.job_role_id, db, self_weights)} :
           /\ ret' = st.ret
           /\ db' = [db EXCEPT !.resumes = st.resumes, !.analyses = st.analyses]
           /\ uploads' = [path \in DOMAIN uploads \cup {<<"uploads/resumes", k, st.saved[k]>> : k \in 1..Len(st.saved)} |->
                             IF path \in DOMAIN uploads THEN uploads[path] ELSE path[3]]
    /\ pc' = "return"
    /\ UNCHANGED <<op, arg, simCalls, self_weights, history, threads, processing_state, requests, smtp_configured>>

SpecBulk == InitBulk /\ [][AnalyzeResumesBulk]_vars

(***************************************************************************)
(* Properties of the bulk analyze endpoint.                                *)
(***************************************************************************)
Analyzed == Returned("analyze_resumes_bulk") /\ "results" \in DOMAIN ret

\* the file is of an unsupported type, cannot be parsed, or a step raised
FailedFile(file) ==
    \/ lower(file.ext) \notin {s_pdf, s_docx, s_doc}
    \/ ~file.opens
    \/ file.fault # "none"

OneEntryPerFileInOrder ==
    /\ Len(ret.results) = Len(arg.files)
    /\ \A i \in 1..Len(arg.files) : ret.results[i].filename = arg.files[i].filename

ShortlistedAreSuccesses ==
    \A k \in 1..Len(ret.shortlisted_candidates) :
        \E i \in 1..Len(ret.results) :
            /\ ret.results[i].status = "success"
            /\ ret.results[i].analysis_id = ret.shortlisted_candidates[k].analysis_id
            /\ ret.results[i].is_shortlisted
            /\ ret.results[i].candidate_email = <<ret.shortlisted_candidates[k].email>>
            /\ Len(ret.shortlisted_candidates[k].email) > 0

\* C28 as stated: a failure on one file (unsupported extension, parse error,
\* scoring error or database error) gives that file one "error" entry and the
\* following files are still processed: results has one entry per file in
\* upload order, successful <= total_processed, and every shortlisted
\* candidate is a "success" entry with is_shortlisted and a non-empty email.
C28_FailuresAreIsolatedErrors ==
    Analyzed =>
        /\ OneEntryPerFileInOrder
        /\ \A i \in 1..Len(ret.results) :
              FailedFile(arg.files[i]) => ret.results[i].status = "error"
        /\ ret.successful <= ret.total_processed
        /\ ShortlistedAreSuccesses

(***************************************************************************)
(* POST /api/shortlisted/send-emails (src/main.py) and the EmailService    *)
(* it calls (src/email_service.py).                                        *)
(***************************************************************************)
MaxCandidates == 2

s_Candidate == <<"C","a","n","d","i","d","a","t","e">>

\* an analysed resume: its parsed name and email, whether it was shortlisted,
\* and how the SMTP server answers a mail to it
Applicants ==
    {[candidate_name |-> <<"Ann">>, candidate_email |-> <<"ann@x.org">>, is_shortlisted |-> TRUE, delivery |-> "sent"],
     [candidate_name |-> << >>, candidate_email |-> <<"bo@x.org">>, is_shortlisted |-> TRUE, delivery |-> "failed"],
     [candidate_name |-> <<"Cy">>, candidate_email |-> << >>, is_shortlisted |-> TRUE, delivery |-> "sent"],
     [candidate_name |-> <<"Di">>, candidate_email |-> <<"di@x.org">>, is_shortlisted |-> FALSE, delivery |-> "sent"]}

\* the resumes and analyses tables holding the applicants, all of job role 1
resumes_of(applicants) ==
    [k \in 1..Len(applicants) |->
        [id |-> k, candidate_name |-> applicants[k].candidate_name,
         candidate_email |-> applicants[k].candidate_email]]

analyses_of(applicants) ==
    [k \in 1..Len(applicants) |->
        [id |-> k, resume_id |-> k, job_role_id |-> 1, overall_score |-> 7500,
         is_shortlisted |-> applicants[k].is_shortlisted]]

SendEmailsCalls ==
    {[job_role_id |-> id, applicants |-> a, commit_ok |-> c] :
        id \in {1, 7}, a \in SeqsUpTo(Applicants, MaxCandidates), c \in BOOLEAN}

\* EmailService.send_email: the dict it returns
send_email(configured, delivery) ==
    IF ~configured
    THEN [status |-> "error", message |-> "Email configuration not set"]
    ELSE IF delivery = "sent"
    THEN [status |-> "sent", message |-> "Email sent successfully", sent_at |-> "now"]
    ELSE [status |-> "failed", message |-> "SMTP Error", error |-> "SMTPException"]

\* a dict with two more keys
with_keys(d, email, name) ==
    [k \in DOMAIN d \cup {"email", "candidate_name"} |->
        IF k = "email" THEN email ELSE IF k = "candidate_name" THEN name ELSE d[k]]

\* EmailService.send_bulk_emails
RECURSIVE send_bulk_emails(_, _, _)
send_bulk_emails(candidates, configured, i) ==
    IF i > Len(candidates) THEN << >>
    ELSE LET candidate == candidates[i]
         IN  <<IF candidate.email = << >>
               THEN [email |-> candidate.email, status |-> "skipped", message |-> "No email address found"]
               ELSE with_keys(send_email(configured, candidate.delivery), candidate.email, candidate.name)>>
             \o send_bulk_emails(candidates, configured, i + 1)

\* candidates: the shortlisted analyses of the role whose resume has an email
candidates_of(tables, job_role_id, applicants) ==
    LET analyses == SelectSeq(tables.analyses, LAMBDA a : a.job_role_id = job_role_id /\ a.is_shortlisted)
        with_email == SelectSeq(analyses, LAMBDA a : tables.resumes[a.resume_id].candidate_email # << >>)
    IN  [k \in 1..Len(with_email) |->
            LET resume == tables.resumes[with_email[k].resume_id]
            IN  [email |-> resume.candidate_email,
                 name |-> IF resume.candidate_name # << >> THEN resume.candidate_name[1] ELSE s_Candidate,
                 score |-> with_email[k].overall_score,
                 analysis_id |-> with_email[k].id,
                 delivery |-> applicants[with_email[k].resume_id].delivery]]

email_log_of(candidate, result) ==
    [analysis_id |-> candidate.analysis_id,
     recipient_email |-> result.email,
     status |-> result.status,
     sent_at |-> IF "sent_at" \in DOMAIN result THEN <<result.sent_at>> ELSE << >>,
     error_message |-> IF result.status # "sent" /\ "error" \in DOMAIN result THEN <<result.error>> ELSE << >>]

CountStatus(email_results, status) ==
    Len(SelectSeq(email_results, LAMBDA r : r.status = status))

\* the handler: the response (or HTTP error) and the email_logs table after it
send_shortlist_emails(job_role_id, tables, configured, applicants, commit_ok) ==
    LET analyses == SelectSeq(tables.analyses, LAMBDA a : a.job_role_id = job_role_id /\ a.is_shortlisted)
        candidates == candidates_of(tables, job_role_id, applicants)
        email_results == send_bulk_emails(candidates, configured, 1)
    IN  IF Len(analyses) = 0
        THEN [ret |-> [message |-> "No shortlisted candidates found", emails_sent |-> 0], email_logs |-> tables.email_logs]
        ELSE IF \A k \in 1..Len(JobRoles) : JobRoles[k].id # job_role_id
        THEN [ret |-> [raised |-> "HTTPException", status_code |-> 404], email_logs |-> tables.email_logs]
        ELSE IF Len(candidates) = 0
        THEN [ret |-> [message |-> "No email addresses found for shortlisted candidates", emails_sent |-> 0], email_logs |-> tables.email_logs]
        ELSE IF ~commit_ok
        THEN [ret |-> [raised |-> "HTTPException", status_code |-> 500], email_logs |-> tables.email_logs]
        ELSE [ret |-> [message |-> "Emails sent",
                       total_candidates |-> Len(candidates),
                       emails_sent |-> CountStatus(email_results, "sent"),
                       emails_failed |-> CountStatus(email_results, "failed"),
                       email_results |-> email_results],
              email_logs |-> tables.email_logs \o
                  [k \in 1..Len(email_results) |-> email_log_of(candidates[k], email_results[k])]]

InitSendEmails ==
    /\ pc = "call"
    /\ op = "send_shortlist_emails"
    /\ arg \in SendEmailsCalls
    /\ ret = << >>
    /\ simCalls = 0
    /\ self_weights = DefaultWeights
    /\ history = {}
    /\ threads = << >>
    /\ processing_state = [total_files |-> 0, processed_files |-> 0, current_status |-> "idle"]
    /\ uploads = [path \in {} |-> << >>]
    /\ requests = << >>
    /\ db = [screening_results |-> << >>, resumes |-> resumes_of(arg.applicants), analyses |-> analyses_of(arg.applicants), email_logs |-> << >>]
    /\ smtp_configured \in BOOLEAN

SendShortlistEmails ==
    /\ pc = "call"
    /\ op = "send_shortlist_emails"
    /\ \E out \in {send_shortlist_emails(arg.job_role_id, db, smtp_configured, arg.applicants, arg.commit_ok)} :
           /\ ret' = out.ret
           /\ db' = [db EXCEPT !.email_logs = out.email_logs]
    /\ pc' = "return"
    /\ UNCHANGED <<op, arg, simCalls, self_weights, history, threads, processing_state, uploads, requests, smtp_configured>>

SpecSendEmails == InitSendEmails /\ [][SendShortlistEmails]_vars

(***************************************************************************)
(* Properties of the shortlist email sender.                               *)
(***************************************************************************)
EmailsAttempted == Returned("send_shortlist_emails") /\ "email_results" \in DOMAIN ret

\* the shortlisted applicants with an email address, in table order
Recipients ==
    SelectSeq(arg.applicants, LAMBDA a : a.is_shortlisted /\ a.candidate_email # << >>)

RecipientIds ==
    SelectSeq([k \in 1..Len(arg.applicants) |-> k],
              LAMBDA k : arg.applicants[k].is_shortlisted /\ arg.applicants[k].candidate_email # << >>)

OneResultPerCandidateInOrder ==
    /\ Len(ret.email_results) = Len(Recipients)
    /\ ret.total_candidates = Len(Recipients)
    /\ \A k \in 1..Len(Recipients) : ret.email_results[k].email = Recipients[k].candidate_email

OneLogPerCandidate ==
    /\ Len(db.email_logs) = Len(Recipients)
    /\ \A k \in 1..Len(Recipients) : db.email_logs[k].analysis_id = RecipientIds[k]

\* C29 as stated: when shortlist emails are sent there is one result per
\* candidate in candidate order, one EmailLog row per candidate with that
\* candidate's analysis_id, and emails_sent + emails_failed equals
\* total_candidates, also when the SMTP credentials are not configured.
C29_EveryCandidateSentOrFailed ==
    EmailsAttempted =>
        /\ OneResultPerCandidateInOrder
        /\ OneLogPerCandidate
        /\ ret.emails_sent + ret.emails_failed = ret.total_candidates

====
